---- MODULE Spec2Model ----
(***************************************************************************)
(* ONVIF proxy for PTZ cameras: the per-camera motion state               *)
(* (camera_config['status'], camera_config['_move_timer']), the           *)
(* threading.Timer objects that revert it, and the request transform of   *)
(* every inbound ONVIF operation.                                          *)
(*                                                                         *)
(* Flask runs every request in a thread of its own (app.run(threaded=     *)
(* True)) and every threading.Timer is a thread; helpers.py takes no      *)
(* lock.  Each statement of set_moving / set_idle that reads or writes    *)
(* the shared camera_config is therefore one step of the model, and the   *)
(* steps of different threads interleave freely.                           *)
(***************************************************************************)
EXTENDS Integers, Sequences, FiniteSets, TLC

(***************************************************************************)
(* Bounds of the model.                                                    *)
(***************************************************************************)
\* Number of inbound requests over a run.  Request r is handled by thread r
\* and, when it arms a timer, that timer is timer r.
MaxRequests == 3
\* Cameras configured (entries of cameras.yaml).
NumDevices == 2
\* Largest move_timeout (in clock ticks) a camera is configured with.
MaxTimeout == 1

Requests == 1..MaxRequests
Devices == 1..NumDevices
None == 0

(***************************************************************************)
(* Text and numbers.  An XML attribute value is a sequence of one-char    *)
(* strings.  A float is a sign and a magnitude in units of 10^-8, which   *)
(* is exact for every value the model computes.                            *)
(***************************************************************************)
\* Decimal places carried by a magnitude (magnitudes are multiples of 10^-8).
NumPlaces == 8
\* Significant digits of the 'g' presentation type (Python's default precision).
GPrecision == 6
\* 'g' switches to scientific notation below this decimal exponent.
GMinExp == -4

RECURSIVE Pow10(_)
Pow10(n) == IF n = 0 THEN 1 ELSE 10 * Pow10(n - 1)

One == Pow10(NumPlaces)

RECURSIVE NumDigits(_)
NumDigits(n) == IF n < 10 THEN 1 ELSE 1 + NumDigits(n \div 10)

DigitChars == <<"0", "1", "2", "3", "4", "5", "6", "7", "8", "9">>
IsDigit(c) == \E i \in 1..10 : DigitChars[i] = c
DigitVal(c) == (CHOOSE i \in 1..10 : DigitChars[i] = c) - 1

RECURSIVE ToNat(_)
ToNat(s) == IF s = <<>> THEN 0
            ELSE 10 * ToNat(SubSeq(s, 1, Len(s) - 1)) + DigitVal(s[Len(s)])

AllDigits(s) == \A i \in 1..Len(s) : IsDigit(s[i])

\* The first index of s holding one of chars, or 0.
IndexOf(s, chars) ==
    IF \E i \in 1..Len(s) : s[i] \in chars
    THEN CHOOSE i \in 1..Len(s) : s[i] \in chars /\ \A j \in 1..(i - 1) : s[j] \notin chars
    ELSE 0

Unsigned(s) == IF s # <<>> /\ s[1] \in {"+", "-"} THEN SubSeq(s, 2, Len(s)) ELSE s
IsNegative(s) == s # <<>> /\ s[1] = "-"

\* float(text), for the decimal grammar [sign] digits [. digits] [e [sign] digits]
\* (a digit is required in the mantissa).  Any other text is a ValueError.
\* (float() also takes surrounding blanks, underscores, "inf" and "nan": no
\* text of Docs is of these forms.)
ParseFloat(text) ==
    LET body == Unsigned(text)
        epos == IndexOf(body, {"e", "E"})
        mant == IF epos = 0 THEN body ELSE SubSeq(body, 1, epos - 1)
        expo == IF epos = 0 THEN <<>> ELSE SubSeq(body, epos + 1, Len(body))
        dot  == IndexOf(mant, {"."})
        ip   == IF dot = 0 THEN mant ELSE SubSeq(mant, 1, dot - 1)
        fp   == IF dot = 0 THEN <<>> ELSE SubSeq(mant, dot + 1, Len(mant))
        mantOk == AllDigits(ip) /\ AllDigits(fp) /\ Len(ip) + Len(fp) > 0
        expOk  == epos = 0 \/ (Unsigned(expo) # <<>> /\ AllDigits(Unsigned(expo)))
    IN  IF ~(mantOk /\ expOk) THEN [ok |-> FALSE, neg |-> FALSE, mag |-> 0]
        ELSE LET e     == IF epos = 0 THEN 0
                          ELSE IF IsNegative(expo) THEN 0 - ToNat(Unsigned(expo))
                          ELSE ToNat(Unsigned(expo))
                 shift == NumPlaces - Len(fp) + e
                 digs  == ToNat(ip \o fp)
             IN  [ok  |-> TRUE,
                  neg |-> IsNegative(text),
                  mag |-> IF shift >= 0 THEN digs * Pow10(shift)
                          ELSE digs \div Pow10(0 - shift)]

\* x_orig_f * MULTIPLIER: the multiplier is a float held in tenths.
Mul(v, tenths) ==
    [neg |-> (v.neg # (tenths < 0)),
     mag |-> (v.mag \div 10) * (IF tenths < 0 THEN 0 - tenths ELSE tenths)]

\* v < w on floats (the two zeros compare equal).
FloatLess(v, w) ==
    LET sv == IF v.neg THEN 0 - v.mag ELSE v.mag
        sw == IF w.neg THEN 0 - w.mag ELSE w.mag
    IN  sv < sw

PlusOne  == [neg |-> FALSE, mag |-> One]
MinusOne == [neg |-> TRUE, mag |-> One]

\* min(1.0, v): the first argument unless the second is smaller.
PyMin(a, b) == IF FloatLess(b, a) THEN b ELSE a
\* max(-1.0, v): the first argument unless the second is larger.
PyMax(a, b) == IF FloatLess(a, b) THEN b ELSE a

\* A transform that does not saturate.
ClampNothing(v) == v

\* max(-1.0, min(1.0, v))
Clamp(v) == PyMax(MinusOne, PyMin(PlusOne, v))

RECURSIVE DigitsOf(_, _)
\* n written with exactly `width` digits.
DigitsOf(n, width) ==
    IF width = 0 THEN <<>>
    ELSE Append(DigitsOf(n \div 10, width - 1), DigitChars[(n % 10) + 1])

RECURSIVE StripZeros(_)
StripZeros(s) ==
    IF s # <<>> /\ s[Len(s)] = "0" THEN StripZeros(SubSeq(s, 1, Len(s) - 1)) ELSE s

\* mag rounded to GPrecision significant digits (half to even): the digits as
\* a number of exactly GPrecision digits, and the decimal exponent of the first.
RoundSig(mag) ==
    LET k == NumDigits(mag)
    IN  IF k <= GPrecision
        THEN [digits |-> mag * Pow10(GPrecision - k), exp |-> k - 1 - NumPlaces]
        ELSE LET unit == Pow10(k - GPrecision)
                 q    == mag \div unit
                 rem  == mag % unit
                 up   == 2 * rem > unit \/ (2 * rem = unit /\ q % 2 = 1)
                 d    == IF up THEN q + 1 ELSE q
             IN  IF d = Pow10(GPrecision)
                 THEN [digits |-> Pow10(GPrecision - 1), exp |-> k - NumPlaces]
                 ELSE [digits |-> d, exp |-> k - 1 - NumPlaces]

\* f"{v:g}"
FormatG(v) ==
    LET sign == IF v.neg THEN <<"-">> ELSE <<>>
    IN  IF v.mag = 0 THEN sign \o <<"0">>
        ELSE LET r   == RoundSig(v.mag)
                 sig == DigitsOf(r.digits, GPrecision)
                 e   == r.exp
             IN  IF e < GMinExp \/ e >= GPrecision
                 THEN LET frac == StripZeros(SubSeq(sig, 2, GPrecision))
                          ae   == IF e < 0 THEN 0 - e ELSE e
                      IN  sign \o <<sig[1]>>
                               \o (IF frac = <<>> THEN <<>> ELSE <<".">> \o frac)
                               \o <<"e", IF e < 0 THEN "-" ELSE "+">>
                               \o DigitsOf(ae, IF ae < 100 THEN 2 ELSE 3)
                 ELSE IF e >= 0
                 THEN LET frac == StripZeros(SubSeq(sig, e + 2, GPrecision))
                      IN  sign \o SubSeq(sig, 1, e + 1)
                               \o (IF frac = <<>> THEN <<>> ELSE <<".">> \o frac)
                 ELSE sign \o <<"0", ".">> \o DigitsOf(0, (0 - e) - 1) \o StripZeros(sig)


(***************************************************************************)
(* Request documents.  Of a parsed envelope the model keeps what the      *)
(* request transform reads: the first tt:PanTilt element in document      *)
(* order, if any, and its x and y attributes, if any.  Everything else in *)
(* the tree is never read or written by modify_onvif_request.             *)
(***************************************************************************)
Chars(str) ==
    CASE str = "0.8"       -> <<"0", ".", "8">>
      [] str = "-0.5"      -> <<"-", "0", ".", "5">>
      [] str = "2"         -> <<"2">>
      [] str = "0.1234567" -> <<"0", ".", "1", "2", "3", "4", "5", "6", "7">>
      [] str = "0.0001"    -> <<"0", ".", "0", "0", "0", "1">>
      [] str = "abc"       -> <<"a", "b", "c">>
      [] str = ""          -> <<>>

NoAttr == [present |-> FALSE, text |-> <<>>]
Attr(t) == [present |-> TRUE, text |-> t]

NoPanTilt == [pantilt |-> FALSE, x |-> NoAttr, y |-> NoAttr]
PanTilt(x, y) == [pantilt |-> TRUE, x |-> x, y |-> y]

\* A RelativeMove the transform rewrites.
ValidDoc == PanTilt(Attr(Chars("0.8")), Attr(Chars("-0.5")))

\* The RelativeMove documents of the model: no PanTilt element; an axis
\* missing; both axes numeric; an axis that is not a number.
Docs == {NoPanTilt,
         PanTilt(NoAttr, NoAttr),
         PanTilt(Attr(Chars("0.8")), NoAttr),
         PanTilt(NoAttr, Attr(Chars("0.8"))),
         PanTilt(Attr(Chars("abc")), NoAttr),
         ValidDoc,
         PanTilt(Attr(Chars("2")), Attr(Chars("0.1234567"))),
         PanTilt(Attr(Chars("0.1234567")), Attr(Chars("2"))),
         PanTilt(Attr(Chars("-0.5")), Attr(Chars("0.0001"))),
         PanTilt(Attr(Chars("abc")), Attr(Chars("0.8"))),
         PanTilt(Attr(Chars("0.8")), Attr(Chars("abc"))),
         PanTilt(Attr(Chars("")), Attr(Chars("-0.5")))}

\* Multipliers (in tenths) a camera may be configured with, and the
\* (x_multiplier, y_multiplier) pairs of the sequential specification.
MultPool == {-10, -5, 0, 5, 10}
MultPairs == <<<<-10, 10>>, <<-5, 0>>, <<0, 5>>, <<5, -5>>, <<10, -10>>>>

PassThroughOps == {"GetCapabilities", "GetProfiles", "GetConfigurationOptions",
                   "GetStatus", "GetPresets", "GetServiceCapabilities"}
MoveOps == {"GoToPreset", "ContinuousMove", "AbsoluteMove"}
\* "SetPreset" stands for every operation name the transform does not list.
Operations == PassThroughOps \cup MoveOps \cup {"RelativeMove", "Stop", "SetPreset"}

\* The requests of the sequential specification: a RelativeMove with any
\* document, any other operation with a document that has a PanTilt element.
\* Those of the concurrent specification, all for one camera: a move, a stop
\* and a query.
ConcDevices == {1}
SeqInputs == ({"RelativeMove"} \X Docs) \cup ((Operations \ {"RelativeMove"}) \X {ValidDoc})
ConcInputs == {<<"RelativeMove", ValidDoc>>,
               <<"Stop", NoPanTilt>>,
               <<"GetStatus", NoPanTilt>>}

(***************************************************************************)
(* The RelativeMove branch of modify_onvif_request, up to set_moving.     *)
(***************************************************************************)
\* Both attributes are there: the branch converts, scales and rewrites them.
HasBothAxes(doc) == doc.pantilt /\ doc.x.present /\ doc.y.present

\* float(x_orig) or float(y_orig) raises ValueError.
RaisesValueError(doc) ==
    HasBothAxes(doc) /\ (~ParseFloat(doc.x.text).ok \/ ~ParseFloat(doc.y.text).ok)

\* new_x and new_y, as floats.
ScaledX(doc, xm) == Clamp(Mul(ParseFloat(doc.x.text), xm))
ScaledY(doc, ym) == Clamp(Mul(ParseFloat(doc.y.text), ym))

\* The tree after pan_tilt.set('x', ...) and pan_tilt.set('y', ...).
Rewritten(doc, xm, ym) ==
    [doc EXCEPT !.x = Attr(FormatG(ScaledX(doc, xm))),
                !.y = Attr(FormatG(ScaledY(doc, ym)))]

\* A transform that calls set_moving for every RelativeMove.
FirstStepAlwaysMoving(op, doc) ==
    IF op = "RelativeMove" \/ op \in MoveOps THEN "sm_get"
    ELSE IF op = "Stop" THEN "si_get" ELSE "forward"

\* Where the transform of `op` goes after its local work on `doc`.
FirstStep(op, doc) ==
    CASE op = "RelativeMove" ->
            IF ~HasBothAxes(doc) THEN "forward"
            ELSE IF RaisesValueError(doc) THEN "raise" ELSE "sm_get"
      [] op \in MoveOps -> "sm_get"
      [] op = "Stop" -> "si_get"
      [] OTHER -> "forward"

\* A transform that rewrites the PanTilt of any operation.
TreeAfterAnyOperation(op, doc, xm, ym) ==
    IF HasBothAxes(doc) /\ ~RaisesValueError(doc)
    THEN Rewritten(doc, xm, ym)
    ELSE doc

\* The tree the transform serialises.
TreeAfter(op, doc, xm, ym) ==
    IF op = "RelativeMove" /\ HasBothAxes(doc) /\ ~RaisesValueError(doc)
    THEN Rewritten(doc, xm, ym)
    ELSE doc

\* modify_onvif_request up to its call of set_moving or set_idle is a function
\* of the operation, the document and the multipliers: its results, for the
\* requests of the model.
Transformed ==
    [in \in SeqInputs \cup ConcInputs, xm \in MultPool, ym \in MultPool |->
        [next |-> FirstStep(in[1], in[2]),
         tree |-> TreeAfter(in[1], in[2], xm, ym)]]

(***************************************************************************)
(* Response documents.  Of the tree given to modify_onvif_response the    *)
(* model keeps the elements and attributes the branch of the operation    *)
(* looks for.  Element.text is None for an element without text: a text   *)
(* is a sequence of at most one string, empty for None.                    *)
(***************************************************************************)
NoText == <<>>
Text(str) == <<str>>

NoElem == [present |-> FALSE, text |-> NoText]
Elem(text) == [present |-> TRUE, text |-> text]

\* A GetStatus response: whether it has a tptz:PTZStatus element, the
\* tt:MoveStatus/tt:PanTilt element below it, and the tt:Position/tt:PanTilt
\* element below it with its x and y attributes.
StatusDoc(ptz, move, pos) ==
    [kind |-> "GetStatus", ptz |-> ptz, move |-> move, pos |-> pos]

\* The positions a camera reports.
Here == PanTilt(Attr(Chars("0.8")), Attr(Chars("-0.5")))
There == PanTilt(Attr(Chars("0.8")), Attr(Chars("0.8")))
NoX == PanTilt(NoAttr, Attr(Chars("-0.5")))
NoY == PanTilt(Attr(Chars("0.8")), NoAttr)

StatusDocs ==
    {StatusDoc(FALSE, NoElem, NoPanTilt)}
    \cup {StatusDoc(TRUE, NoElem, pos) : pos \in {NoPanTilt, Here}}
    \cup {StatusDoc(TRUE, Elem(t), pos) :
             t \in {NoText, Text("IDLE"), Text("MOVING"), Text("UNKNOWN")},
             pos \in {NoPanTilt, Here, There, NoX, NoY}}

\* What a call returned: etree.tostring(root), which is bytes without an XML
\* declaration; etree.tostring(root, encoding='utf-8', xml_declaration=True)
\* .decode('utf-8'), which is a str that begins with an XML declaration; or
\* the exception the call raised.
Bytes(tree) == [kind |-> "bytes", declaration |-> FALSE, tree |-> tree]
Str(tree) == [kind |-> "str", declaration |-> TRUE, tree |-> tree]
Raise(exc) == [kind |-> "raise", exc |-> exc]

(***************************************************************************)
(* modify_onvif_response, operation GetStatus.                             *)
(***************************************************************************)
\* The branch returns the tree as it is: there is no PTZStatus, or no
\* MoveStatus/PanTilt below it.
StatusUntouched(doc) == ~doc.ptz \/ ~doc.move.present

\* "..." + MoveStatus.text raises TypeError when the text is None.
StatusRaises(doc) == ~StatusUntouched(doc) /\ doc.move.text = NoText

\* last_x is not None and last_y is not None and current_x == last_x and
\* current_y == last_y, for a response that has a Position/PanTilt.
Stable(doc, last_x, last_y) ==
    /\ last_x.present /\ last_y.present
    /\ doc.pos.x = last_x /\ doc.pos.y = last_y

\* Where the branch goes: it returns at once, raises, calls set_idle, or
\* goes on to record the position.
StatusStep(doc, last_x, last_y) ==
    CASE StatusUntouched(doc) -> "return"
      [] StatusRaises(doc) -> "raise"
      [] ~doc.pos.pantilt -> "return"
      [] Stable(doc, last_x, last_y) -> "rs_get"
      [] OTHER -> "store"

\* The tree after MoveStatus.text = last_status and, when the position is
\* stable, MoveStatus.text = "IDLE".
StatusTree(doc, last_status, last_x, last_y) ==
    IF StatusUntouched(doc) \/ StatusRaises(doc) THEN doc
    ELSE IF doc.pos.pantilt /\ Stable(doc, last_x, last_y)
    THEN [doc EXCEPT !.move = Elem(Text("IDLE"))]
    ELSE [doc EXCEPT !.move = Elem(Text(last_status))]


(***************************************************************************)
(* modify_onvif_response, operation GetConfigurationOptions.  Of the      *)
(* response the model keeps the first tt:Spaces element and its children: *)
(* of each child its tag, its tt:URI child and its two ranges.             *)
(***************************************************************************)
RelativeTag == "RelativePanTiltTranslationSpace"
GenericUri == "http://www.onvif.org/ver10/tptz/PanTiltSpaces/TranslationGenericSpace"
FovUri == "http://www.onvif.org/ver10/tptz/PanTiltSpaces/TranslationSpaceFov"
\* A URI of which "TranslationSpaceFov" is a part, and which is not FovUri.
VendorUri == "http://vendor.example/spaces/TranslationSpaceFovWide"
PositionUri == "http://www.onvif.org/ver10/tptz/PanTiltSpaces/PositionGenericSpace"

\* 'TranslationSpaceFov' in text, for the URIs of the model.
ContainsFov(str) == str \in {FovUri, VendorUri}

\* A range: the texts of its Min and Max.
UnitRange == <<"-1", "1">>
NarrowRange == <<"-0.5", "0.5">>

Space(tag, uri, xrange, yrange) ==
    [tag |-> tag, uri |-> uri, xrange |-> xrange, yrange |-> yrange]

\* The element the branch builds: the tag, the URI, XRange and YRange of -1..1.
FovSpace == Space(RelativeTag, Elem(Text(FovUri)), UnitRange, UnitRange)

\* The children a camera lists under tt:Spaces.
SpaceKinds ==
    {Space(RelativeTag, Elem(Text(GenericUri)), NarrowRange, UnitRange),
     Space(RelativeTag, Elem(Text(FovUri)), NarrowRange, NarrowRange),
     Space(RelativeTag, Elem(Text(VendorUri)), UnitRange, UnitRange),
     Space(RelativeTag, NoElem, UnitRange, UnitRange),
     Space(RelativeTag, Elem(NoText), UnitRange, UnitRange),
     Space("AbsolutePanTiltPositionSpace", Elem(Text(PositionUri)), UnitRange, UnitRange),
     Space("RelativeZoomTranslationSpace", Elem(Text(FovUri)), UnitRange, UnitRange)}

\* Longest list of children in a response of the model.
MaxSpaces == 2

IsRelative(space) == space.tag = RelativeTag

\* A relative pan-tilt translation space whose URI is the TranslationSpaceFov one.
IsFovSpace(space) == IsRelative(space) /\ space.uri = Elem(Text(FovUri))

CountFov(list) == Cardinality({i \in 1..Len(list) : IsFovSpace(list[i])})

NoSpaces == [kind |-> "GetConfigurationOptions", spaces |-> FALSE, list |-> <<>>]
Spaces(list) == [kind |-> "GetConfigurationOptions", spaces |-> TRUE, list |-> list]

\* The responses of the model: no tt:Spaces, or a list in which the camera
\* names the TranslationSpaceFov space at most once.
OptionsDocs ==
    {NoSpaces}
    \cup {Spaces(list) : list \in
             {l \in UNION {[1..n -> SpaceKinds] : n \in 0..MaxSpaces} : CountFov(l) <= 1}}

RECURSIVE FovCheck(_, _)
\* The loop over spaces.findall('tt:RelativePanTiltTranslationSpace'), from
\* child i on: "found" when a URI contains 'TranslationSpaceFov', "raise"
\* when a URI element without text is met first ('...' in None is a
\* TypeError), "absent" when the loop ends.
FovCheck(list, i) ==
    IF i > Len(list) THEN "absent"
    ELSE IF ~IsRelative(list[i]) \/ ~list[i].uri.present THEN FovCheck(list, i + 1)
    ELSE IF list[i].uri.text = NoText THEN "raise"
    ELSE IF ContainsFov(list[i].uri.text[1]) THEN "found"
    ELSE FovCheck(list, i + 1)

\* last_rel_pt_idx + 1, as a position of the model (children count from 1).
LastRelative(list) ==
    CHOOSE i \in 1..Len(list) :
       IsRelative(list[i]) /\ \A j \in (i + 1)..Len(list) : ~IsRelative(list[j])

\* spaces.insert(last_rel_pt_idx + 1, fov_space)
Inserted(list) ==
    SubSeq(list, 1, LastRelative(list)) \o <<FovSpace>>
        \o SubSeq(list, LastRelative(list) + 1, Len(list))

\* What the branch returns.
OptionsResult(doc) ==
    IF ~doc.spaces THEN Bytes(doc)
    ELSE IF \A i \in 1..Len(doc.list) : ~IsRelative(doc.list[i]) THEN Bytes(doc)
    ELSE CASE FovCheck(doc.list, 1) = "found" -> Bytes(doc)
           [] FovCheck(doc.list, 1) = "raise" -> Raise("TypeError")
           [] OTHER -> Str(Spaces(Inserted(doc.list)))


(***************************************************************************)
(* modify_onvif_response, operation GetServiceCapabilities.  Of the       *)
(* response the model keeps the first tptz:Capabilities element and its   *)
(* MoveStatus and StatusPosition attributes.                                *)
(***************************************************************************)
CapabilitiesDoc(caps, move, position) ==
    [kind |-> "GetServiceCapabilities", caps |-> caps,
     MoveStatus |-> move, StatusPosition |-> position]

FlagValues == {NoAttr, Attr(Text("false")), Attr(Text("true"))}

CapabilitiesDocs ==
    {CapabilitiesDoc(FALSE, NoAttr, NoAttr)}
    \cup {CapabilitiesDoc(TRUE, m, p) : m \in FlagValues, p \in FlagValues}

\* A branch that sets one of the two attributes.
CapabilitiesResultOne(doc) ==
    IF ~doc.caps THEN Bytes(doc)
    ELSE Bytes([doc EXCEPT !.MoveStatus = Attr(Text("true"))])

\* What the branch returns.
CapabilitiesResult(doc) ==
    IF ~doc.caps THEN Bytes(doc)
    ELSE Bytes([doc EXCEPT !.MoveStatus = Attr(Text("true")),
                           !.StatusPosition = Attr(Text("true"))])

(***************************************************************************)
(* modify_onvif_response, operation RelativeMove.  Of the response the    *)
(* model keeps the first SOAP-ENV:Body element and its children, in       *)
(* order, and whether a SOAP-ENV:Fault element comes before the Body (in  *)
(* the Header).  A child is a Fault, a RelativeMoveResponse, or an        *)
(* element that has a Fault below it ("Wrapper").                          *)
(***************************************************************************)
MoveDoc(header_fault, body, children) ==
    [kind |-> "RelativeMove", header_fault |-> header_fault, body |-> body,
     children |-> children]

BodyChildren == {<<>>, <<"RelativeMoveResponse">>, <<"Fault">>, <<"Wrapper">>,
                 <<"Fault", "RelativeMoveResponse">>, <<"RelativeMoveResponse", "Fault">>,
                 <<"Wrapper", "Fault">>}

MoveDocs ==
    {MoveDoc(h, FALSE, <<>>) : h \in BOOLEAN}
    \cup {MoveDoc(h, TRUE, c) : h \in BOOLEAN, c \in BodyChildren}

\* root.find('.//SOAP-ENV:Fault') is not None
HasFault(doc) ==
    doc.header_fault \/ \E i \in 1..Len(doc.children) : doc.children[i] \in {"Fault", "Wrapper"}

\* The position among the children of the Body of the Fault that
\* root.find('.//SOAP-ENV:Fault') returns (the first in document order), or 0
\* when that Fault is not a child of the Body.
FaultChild(doc) ==
    IF doc.header_fault \/ ~doc.body THEN 0
    ELSE LET first == IndexOf(doc.children, {"Fault", "Wrapper"})
         IN  IF first # 0 /\ doc.children[first] = "Fault" THEN first ELSE 0

\* The children after Body.remove(Fault) and Body.append(RelativeMoveResponse).
FaultReplaced(doc) ==
    SubSeq(doc.children, 1, FaultChild(doc) - 1)
        \o SubSeq(doc.children, FaultChild(doc) + 1, Len(doc.children))
        \o <<"RelativeMoveResponse">>

\* A branch that appends the RelativeMoveResponse and leaves the Fault.
MoveResultKeepsFault(doc) ==
    IF ~HasFault(doc) \/ ~doc.body THEN Bytes(doc)
    ELSE IF FaultChild(doc) = 0 THEN Raise("ValueError")
    ELSE Bytes([doc EXCEPT !.children = Append(@, "RelativeMoveResponse")])

\* What the branch returns.  Body.remove(Fault) raises ValueError when the
\* Fault is not a child of the Body.
MoveResult(doc) ==
    IF ~HasFault(doc) \/ ~doc.body THEN Bytes(doc)
    ELSE IF FaultChild(doc) = 0 THEN Raise("ValueError")
    ELSE Bytes([doc EXCEPT !.children = FaultReplaced(doc)])

(***************************************************************************)
(* proxy_tcp_request.  What requests.post does is the camera's and the    *)
(* network's: it returns a response or raises.                             *)
(***************************************************************************)
PostResponse(text, code) == [kind |-> "response", text |-> text, status_code |-> code]
PostRaises(exc) == [kind |-> "raise", exc |-> exc]

PostResults ==
    {PostResponse("GetStatusResponse", 200), PostResponse("Fault", 400),
     PostResponse("Fault", 500),
     PostRaises("Timeout"), PostRaises("ConnectionError"), PostRaises("Exception")}

\* The pair a call returns.
Pair(text, code) == [kind |-> "pair", text |-> text, status_code |-> code]

\* ONVIFForwardProxy.timeout_fault(), ONVIFForwardProxy.connection_fault()
\* and ONVIFForwardProxy.generic_fault(str(e)), in the except clause that
\* handles `exc`: each is a function with a parameter `self` called through
\* the class with one argument too few, which raises TypeError before the
\* return statement has a value.
FaultBuilt(exc) == Raise("TypeError")

\* What proxy_tcp_request returns, or the exception that leaves it.
Forwarded(post) ==
    IF post.kind = "response" THEN Pair(post.text, post.status_code)
    ELSE FaultBuilt(post.exc)


(***************************************************************************)
(* update_camera_config (POST /update).  The payload is a JSON object; of *)
(* it the model keeps the four keys the handler reads.  A camera's        *)
(* proxy_port and name are its number.                                      *)
(***************************************************************************)
\* The float nan, among multipliers held in tenths.
NaN == 1000

\* A value of the payload: the key is absent; a number (in tenths); a text
\* float() does not accept, such as "abc"; the text "nan" (or the JSON
\* literal NaN, which get_json accepts).
NoValue == [kind |-> "absent"]
Number(tenths) == [kind |-> "number", tenths |-> tenths]
NotNumber == [kind |-> "text"]
NanValue == [kind |-> "nan"]

\* float(data[key]): the value, or ok = FALSE when float raises.
Float(value) ==
    CASE value.kind = "number" -> [ok |-> TRUE, val |-> value.tenths]
      [] value.kind = "nan" -> [ok |-> TRUE, val |-> NaN]
      [] OTHER -> [ok |-> FALSE, val |-> 0]

\* val < -1 or val > 1: every comparison with nan is False.
OutOfRange(val) == val # NaN /\ (val < -10 \/ val > 10)

\* A check that also refuses what is not a number.
RefusedStrict(value) ==
    ~Float(value).ok \/ Float(value).val = NaN \/ OutOfRange(Float(value).val)

\* The handler answers 400 for this value of a key.
Refused(value) == ~Float(value).ok \/ OutOfRange(Float(value).val)

\* A proxy_port or name that no camera has.
Unknown == NumDevices + 1

Payload(port, name, x, y) ==
    [proxy_port |-> port, name |-> name, x_multiplier |-> x, y_multiplier |-> y]

Payloads ==
    {Payload(port, name, x, y) :
        port \in {None, Unknown} \cup Devices, name \in {None} \cup Devices,
        x \in {NoValue, Number(-20), Number(-10), NanValue, NotNumber},
        y \in {NoValue, Number(10), Number(15), NanValue}}

\* target_cam: the camera with the proxy_port of the payload, else the camera
\* with its name, else None.
TargetCam(data) ==
    IF data.proxy_port \in Devices THEN data.proxy_port
    ELSE IF data.name \in Devices THEN data.name
    ELSE None

\* The answer of the handler, or the exception that leaves it.
Answer(code, status) == [kind |-> "answer", status_code |-> code, status |-> status]

\* How far the loop over ('x_multiplier', 'y_multiplier') gets: the keys it
\* assigns, and how the handler ends.  target_cam[key] = val raises TypeError
\* when target_cam is None.
Updated(data) ==
    LET x == data.x_multiplier
        y == data.y_multiplier
        t == TargetCam(data)
    IN  IF x.kind # "absent" /\ Refused(x) THEN [x |-> FALSE, y |-> FALSE, end |-> Answer(400, "error")]
        ELSE IF x.kind # "absent" /\ t = None THEN [x |-> FALSE, y |-> FALSE, end |-> Raise("TypeError")]
        ELSE IF y.kind # "absent" /\ Refused(y)
             THEN [x |-> x.kind # "absent", y |-> FALSE, end |-> Answer(400, "error")]
        ELSE IF y.kind # "absent" /\ t = None THEN [x |-> FALSE, y |-> FALSE, end |-> Raise("TypeError")]
        ELSE IF x.kind # "absent" \/ y.kind # "absent"
             THEN [x |-> x.kind # "absent", y |-> y.kind # "absent", end |-> Answer(200, "ok")]
        ELSE [x |-> FALSE, y |-> FALSE, end |-> Answer(200, "no_changes")]


(***************************************************************************)
(* rewrite_host_urls.  A text is a sequence of pieces that str.replace     *)
(* takes whole or not at all: the scheme, a host, a colon, a port, the     *)
(* path of the service, and any other run of characters.                   *)
(***************************************************************************)
Scheme == "http://"
Colon == ":"
ServicePath == "/onvif/service"

\* f"http://{host}:{port}/onvif/service"
Url(host, port) == <<Scheme, host, Colon, port, ServicePath>>

\* cameras.yaml: the camera_host, camera_port and proxy_port of camera d, and
\* the root-level proxy_server_ip, the address the proxy is reached at.
CameraHost(d) == IF d = 1 THEN "192.168.1.10" ELSE "192.168.1.11"
CameraPort(d) == "2020"
ProxyPort(d) == IF d = 1 THEN "8001" ELSE "8002"
ProxyServerIp == "192.168.1.2"

\* The default of camera_config.get('proxy_host', '127.0.0.1').
DefaultProxyHost == "127.0.0.1"

\* The camera_config given to rewrite_host_urls: the entry of camera d, with
\* or without a proxy_host key.
CameraConfig(d, proxy_host) ==
    [camera_host |-> CameraHost(d), camera_port |-> CameraPort(d),
     proxy_port |-> ProxyPort(d), proxy_host |-> proxy_host]

\* The values of the proxy_host key: none, or the address of the proxy.
ProxyHosts == {NoText, Text(ProxyServerIp)}

\* Most parts a response text of the model is made of.
MaxParts == 3

\* The parts of the response of camera d: its base service URL; other text;
\* the URL of another port of the camera; the beginning and the end of its
\* base service URL; the URL of the proxy.
Parts(d) ==
    {Url(CameraHost(d), CameraPort(d)),
     <<"<tt:XAddr>">>,
     Url(CameraHost(d), "80"),
     <<Scheme, CameraHost(d), Colon>>,
     <<CameraPort(d), ServicePath>>,
     Url(ProxyServerIp, ProxyPort(d))}

RECURSIVE Joined(_)
\* The parts of a list, one after the other.
Joined(parts) == IF parts = <<>> THEN <<>> ELSE Head(parts) \o Joined(Tail(parts))

\* The response texts of camera d.
ResponseTexts(d) ==
    {Joined(parts) : parts \in UNION {[1..n -> Parts(d)] : n \in 0..MaxParts}}

RECURSIVE ReplaceFrom(_, _, _, _)
\* str.replace(old, new) from position i on: the occurrences of old are
\* taken from left to right, and the search goes on after each.
ReplaceFrom(text, old, new, i) ==
    IF i > Len(text) THEN <<>>
    ELSE IF i + Len(old) - 1 <= Len(text) /\ SubSeq(text, i, i + Len(old) - 1) = old
         THEN new \o ReplaceFrom(text, old, new, i + Len(old))
         ELSE <<text[i]>> \o ReplaceFrom(text, old, new, i + 1)

\* What rewrite_host_urls(camera_config, response_text) returns.
RewriteResult(camera_config, response_text) ==
    LET PROXY_HOST == IF camera_config.proxy_host = NoText THEN DefaultProxyHost
                      ELSE camera_config.proxy_host[1]
        old_url == Url(camera_config.camera_host, camera_config.camera_port)
        new_url == Url(PROXY_HOST, camera_config.proxy_port)
    IN  [kind |-> "text", text |-> ReplaceFrom(response_text, old_url, new_url, 1)]


(***************************************************************************)
(* State.                                                                  *)
(***************************************************************************)
VARIABLES
    \* camera_config, per camera
    move_timeout,   \* camera_config['move_timeout'], in ticks
    x_multiplier,   \* camera_config['x_multiplier'], in tenths
    y_multiplier,   \* camera_config['y_multiplier'], in tenths
    status,         \* camera_config['status']: "ABSENT" until first written
    move_timer,     \* camera_config['_move_timer']: a timer, or None
    \* threading.Timer objects; timer k is the one request k created
    tphase,         \* where the timer's thread is
    finished,       \* Timer.finished (the Event cancel() sets)
    remaining,      \* ticks left of Timer.interval
    tlocal,         \* `timer` of the set_idle the timer's callback runs
    \* request threads
    pc,             \* where the thread is
    camera,         \* the camera_config of the request (and of its timer)
    operation,      \* the operation parse_soap_request extracted
    request_doc,    \* the document received
    root,           \* the tree modify_onvif_request works on
    existing,       \* `existing` of set_moving, `timer` of set_idle
    outcome,        \* how handle_onvif_request ended
    \* history, for stating the claims
    replaced,       \* timer k was cancelled or dropped by someone else
    pred,           \* the pending timer request r found armed when it began
    stopped,        \* timer k outlived the return of a Stop for its camera
    \* camera_config, per camera: the position of the last GetStatus response
    status_x,       \* camera_config['status_x']
    status_y,       \* camera_config['status_y']
    \* a call of modify_onvif_response, proxy_tcp_request or
    \* update_camera_config by thread r
    response_doc,   \* the call and its arguments
    response_root,  \* the tree modify_onvif_response works on
    returned,       \* what the call returned, or the exception it raised
    \* the message counter
    messages_proxied,  \* camera_config['_messages_proxied']: NoCount until set
    loaded          \* the value thread r read for its += 1

cfgvars == <<move_timeout, x_multiplier, y_multiplier>>
devvars == <<status, move_timer>>
timervars == <<tphase, finished, remaining, tlocal>>
reqvars == <<pc, camera, operation, request_doc, root, existing, outcome>>
histvars == <<replaced, pred, stopped>>
countvars == <<messages_proxied, loaded>>
respvars == <<status_x, status_y, response_doc, response_root, returned, countvars>>
vars == <<cfgvars, devvars, timervars, reqvars, histvars, respvars>>

CbPhases == {"cb_get", "cb_cancel", "cb_pop", "cb_status"}
TimerPhases == {"unused", "created", "waiting", "done"} \cup CbPhases
SetMovingPcs == {"sm_get", "sm_cancel", "sm_pop", "sm_status", "sm_arm", "sm_start"}
SetIdlePcs == {"si_get", "si_cancel", "si_pop", "si_status"}
\* set_idle, called by modify_onvif_response (position-stability detection)
StableIdlePcs == {"rs_get", "rs_cancel", "rs_pop", "rs_status"}
\* the increment of the message counter
CountPcs == {"mp_check", "mp_init", "mp_load", "mp_store"}
Pcs == {"new", "forward", "done"} \cup SetMovingPcs \cup SetIdlePcs \cup StableIdlePcs
          \cup CountPcs

\* The key '_messages_proxied' is not in camera_config.
NoCount == -1

\* The thread has made no call: no argument, no tree, no result.
NoCall == [kind |-> "none"]

\* camera_config.get('status', 'IDLE')
GetStatus(d) == IF status[d] = "ABSENT" THEN "IDLE" ELSE status[d]

\* Timers of camera d that are started, not cancelled and not yet expired.
LiveTimers(d) == {k \in Requests : camera[k] = d /\ tphase[k] = "waiting"}

TypeOK ==
    /\ move_timeout \in [Devices -> 0..MaxTimeout]
    /\ x_multiplier \in [Devices -> MultPool]
    /\ y_multiplier \in [Devices -> MultPool]
    /\ status \in [Devices -> {"ABSENT", "IDLE", "MOVING"}]
    /\ move_timer \in [Devices -> Requests \cup {None}]
    /\ tphase \in [Requests -> TimerPhases]
    /\ finished \in [Requests -> BOOLEAN]
    /\ remaining \in [Requests -> 0..MaxTimeout]
    /\ tlocal \in [Requests -> Requests \cup {None}]
    /\ pc \in [Requests -> Pcs]
    /\ camera \in [Requests -> Devices \cup {None}]
    /\ operation \in [Requests -> Operations \cup {"none"}]
    /\ request_doc \in [Requests -> Docs]
    /\ \A r \in Requests : operation[r] = "none" <=> pc[r] \in {"new", "done"}
    /\ root \in [Requests -> [pantilt : BOOLEAN,
                              x : [present : BOOLEAN, text : Seq(STRING)],
                              y : [present : BOOLEAN, text : Seq(STRING)]]]
    /\ existing \in [Requests -> Requests \cup {None}]
    /\ outcome \in [Requests -> {"none", "ValueError", "TypeError"}]
    /\ replaced \in [Requests -> BOOLEAN]
    /\ pred \in [Requests -> Requests \cup {None}]
    /\ stopped \in [Requests -> BOOLEAN]

(***************************************************************************)
(* Initial states: the configuration is loaded, no request was received.  *)
(***************************************************************************)
InitState ==
    /\ status = [d \in Devices |-> "ABSENT"]
    /\ move_timer = [d \in Devices |-> None]
    /\ tphase = [k \in Requests |-> "unused"]
    /\ finished = [k \in Requests |-> FALSE]
    /\ remaining = [k \in Requests |-> 0]
    /\ tlocal = [k \in Requests |-> None]
    /\ pc = [r \in Requests |-> "new"]
    /\ camera = [r \in Requests |-> None]
    /\ operation = [r \in Requests |-> "none"]
    /\ request_doc = [r \in Requests |-> NoPanTilt]
    /\ root = [r \in Requests |-> NoPanTilt]
    /\ existing = [r \in Requests |-> None]
    /\ outcome = [r \in Requests |-> "none"]
    /\ replaced = [k \in Requests |-> FALSE]
    /\ pred = [r \in Requests |-> None]
    /\ stopped = [k \in Requests |-> FALSE]
    /\ status_x = [d \in Devices |-> NoAttr]
    /\ status_y = [d \in Devices |-> NoAttr]
    /\ response_doc = [r \in Requests |-> NoCall]
    /\ response_root = [r \in Requests |-> NoCall]
    /\ returned = [r \in Requests |-> NoCall]
    /\ messages_proxied = [d \in Devices |-> NoCount]
    /\ loaded = [r \in Requests |-> 0]

\* The concurrent specification: every camera halves pan and mirrors tilt.
Init ==
    /\ InitState
    /\ \E t \in 0..MaxTimeout : move_timeout = [d \in Devices |-> t]
    /\ x_multiplier = [d \in Devices |-> 5]
    /\ y_multiplier = [d \in Devices |-> -10]

\* The sequential specification: any multipliers in [-1, 1].
SeqInit ==
    /\ InitState
    /\ \E i \in 1..Len(MultPairs) :
          /\ move_timeout = [d \in Devices |-> i % (MaxTimeout + 1)]
          /\ x_multiplier = [d \in Devices |-> MultPairs[i][1]]
          /\ y_multiplier = [d \in Devices |-> MultPairs[i][2]]


(***************************************************************************)
(* History variables.                                                      *)
(*   replaced[k]: another thread called cancel() on timer k, or removed   *)
(*     or overwrote the _move_timer entry that held k.                     *)
(*   pred[r]: the pending timer that was recorded for the camera when     *)
(*     request r called set_moving.                                        *)
(*   stopped[k]: timer k was started and had not ended when the request   *)
(*     transform of a Stop for its camera returned.                        *)
(* Each is forgotten once the thread it describes has ended.               *)
(***************************************************************************)
\* Request r has returned and its timer, if it armed one, has ended.
Over(r) == pc[r] \in {"new", "done"} /\ tphase[r] \in {"unused", "done"}

\* Thread `a` (request a, or the callback of timer a) cancelled or dropped
\* the timers in `dropped`; a Stop for the camera of the timers in `outlived`
\* returned.
HistOf(a, dropped, outlived) ==
    /\ pred' = [r \in Requests |-> IF Over(r)' THEN None ELSE pred[r]]
    /\ replaced' = [k \in Requests |->
                        IF tphase'[k] \in {"unused", "done"} THEN FALSE
                        ELSE replaced[k] \/ (k \in dropped /\ k # a)]
    /\ stopped' = [k \in Requests |->
                        IF tphase'[k] \in {"unused", "created", "done"} THEN FALSE
                        ELSE stopped[k] \/ k \in outlived]

Hist(a, dropped) == HistOf(a, dropped, {})

(***************************************************************************)
(* threading.Timer                                                         *)
(***************************************************************************)
\* Timer.cancel(): sets the finished event.  A timer waiting for its interval
\* wakes up, sees the event set and ends without calling its function.
PhaseAfterCancel(j) ==
    IF j = None THEN tphase
    ELSE [tphase EXCEPT ![j] = IF @ = "waiting" THEN "done" ELSE @]

FinishedAfterCancel(j) ==
    IF j = None THEN finished ELSE [finished EXCEPT ![j] = TRUE]

\* Timer.start() on timer k of camera d: the thread waits for the interval,
\* unless the timer was cancelled before it was started.
PhaseAfterStart(k) == IF finished[k] THEN "done" ELSE "waiting"

\* The clock advances by one tick.
Tick ==
    /\ \E k \in Requests : tphase[k] = "waiting" /\ remaining[k] > 0
    /\ remaining' = [k \in Requests |->
                        IF tphase[k] = "waiting" /\ remaining[k] > 0
                        THEN remaining[k] - 1 ELSE remaining[k]]
    /\ UNCHANGED <<cfgvars, respvars, devvars, tphase, finished, tlocal, reqvars, histvars>>

\* A timer that ends at the end of its interval without calling _set_idle.
ExpireSilently(k) ==
    /\ tphase[k] = "waiting"
    /\ remaining[k] = 0
    /\ tphase' = [tphase EXCEPT ![k] = "done"]
    /\ finished' = [finished EXCEPT ![k] = TRUE]
    /\ UNCHANGED <<cfgvars, respvars, devvars, remaining, tlocal, reqvars>>
    /\ Hist(k, {})

\* Timer.run(): the interval has elapsed and the event is not set, so the
\* timer calls _set_idle, which calls set_idle(camera_config).
Expire(k) ==
    /\ tphase[k] = "waiting"
    /\ remaining[k] = 0
    /\ tphase' = [tphase EXCEPT ![k] = "cb_get"]
    /\ UNCHANGED <<cfgvars, respvars, devvars, finished, remaining, tlocal, reqvars>>
    /\ Hist(k, {})

\* set_idle in the callback: timer = camera_config.get('_move_timer')
CbGet(k) ==
    /\ tphase[k] = "cb_get"
    /\ tlocal' = [tlocal EXCEPT ![k] = move_timer[camera[k]]]
    /\ tphase' = [tphase EXCEPT ![k] =
                    IF move_timer[camera[k]] # None THEN "cb_cancel" ELSE "cb_status"]
    /\ UNCHANGED <<cfgvars, respvars, devvars, finished, remaining, reqvars>>
    /\ Hist(k, {})

\* set_idle in the callback: timer.cancel()
CbCancel(k) ==
    /\ tphase[k] = "cb_cancel"
    /\ finished' = FinishedAfterCancel(tlocal[k])
    /\ tphase' = [PhaseAfterCancel(tlocal[k]) EXCEPT ![k] = "cb_pop"]
    /\ remaining' = [j \in Requests |-> IF tphase'[j] = "done" THEN 0 ELSE remaining[j]]
    /\ UNCHANGED <<cfgvars, respvars, devvars, tlocal, reqvars>>
    /\ Hist(k, {tlocal[k]})

\* set_idle in the callback: camera_config.pop('_move_timer', None)
CbPop(k) ==
    /\ tphase[k] = "cb_pop"
    /\ move_timer' = [move_timer EXCEPT ![camera[k]] = None]
    /\ tphase' = [tphase EXCEPT ![k] = "cb_status"]
    /\ UNCHANGED <<cfgvars, respvars, status, finished, remaining, tlocal, reqvars>>
    /\ Hist(k, {move_timer[camera[k]]})

\* A set_idle that writes the status set_moving writes.
IdleStatusMoving == "MOVING"

\* The status set_idle writes.
IdleStatus == "IDLE"

\* A callback that writes the status of every camera.
CbStatusOfAll(k) ==
    /\ tphase[k] = "cb_status"
    /\ status' = [d \in Devices |-> IdleStatus]
    /\ finished' = [finished EXCEPT ![k] = TRUE]
    /\ tphase' = [tphase EXCEPT ![k] = "done"]
    /\ tlocal' = [tlocal EXCEPT ![k] = None]
    /\ UNCHANGED <<cfgvars, respvars, move_timer, remaining, reqvars>>
    /\ Hist(k, {})

\* set_idle in the callback: camera_config['status'] = 'IDLE'; then
\* Timer.run() sets its own finished event and the thread ends.
CbStatus(k) ==
    /\ tphase[k] = "cb_status"
    /\ status' = [status EXCEPT ![camera[k]] = IdleStatus]
    /\ finished' = [finished EXCEPT ![k] = TRUE]
    /\ tphase' = [tphase EXCEPT ![k] = "done"]
    /\ tlocal' = [tlocal EXCEPT ![k] = None]
    /\ UNCHANGED <<cfgvars, respvars, move_timer, remaining, reqvars>>
    /\ Hist(k, {})

(***************************************************************************)
(* handle_onvif_request, one thread per request.                          *)
(***************************************************************************)
\* A request for camera d arrives.  parse_soap_request gives the operation
\* and the tree; modify_onvif_request reads the multipliers and runs up to
\* its call of set_moving or set_idle, or to its return when it calls
\* neither.  float() of an unparseable attribute raises ValueError, which
\* nothing catches: Flask answers 500.  Requests are numbered in the order
\* they arrive.
HandleRequest(r, d, op, doc) ==
    /\ pc[r] = "new"
    /\ \A q \in Requests : q < r => pc[q] # "new"
    /\ camera' = [camera EXCEPT ![r] = d]
    /\ LET next == Transformed[<<op, doc>>, x_multiplier[d], y_multiplier[d]].next
           tree == Transformed[<<op, doc>>, x_multiplier[d], y_multiplier[d]].tree
       IN  IF next = "raise"
           THEN /\ pc' = [pc EXCEPT ![r] = "done"]
                /\ outcome' = [outcome EXCEPT ![r] = "ValueError"]
                /\ UNCHANGED <<operation, request_doc, root, pred>>
           ELSE /\ pc' = [pc EXCEPT ![r] = next]
                /\ operation' = [operation EXCEPT ![r] = op]
                /\ request_doc' = [request_doc EXCEPT ![r] = doc]
                /\ root' = [root EXCEPT ![r] = tree]
                /\ pred' = [pred EXCEPT ![r] =
                              IF /\ next = "sm_get"
                                 /\ move_timer[d] # None
                                 /\ tphase[move_timer[d]] = "waiting"
                              THEN move_timer[d] ELSE None]
                /\ UNCHANGED outcome
    /\ UNCHANGED <<cfgvars, respvars, devvars, timervars, existing, replaced, stopped>>

\* set_moving: existing = camera_config.get('_move_timer')
SmGet(r) ==
    /\ pc[r] = "sm_get"
    /\ existing' = [existing EXCEPT ![r] = move_timer[camera[r]]]
    /\ pc' = [pc EXCEPT ![r] =
                IF move_timer[camera[r]] # None THEN "sm_cancel" ELSE "sm_status"]
    /\ UNCHANGED <<cfgvars, respvars, devvars, timervars, camera, operation, request_doc, root,
                   outcome>>
    /\ Hist(r, {})

\* set_moving: existing.cancel()
SmCancel(r) ==
    /\ pc[r] = "sm_cancel"
    /\ finished' = FinishedAfterCancel(existing[r])
    /\ tphase' = PhaseAfterCancel(existing[r])
    /\ remaining' = [j \in Requests |-> IF tphase'[j] = "done" THEN 0 ELSE remaining[j]]
    /\ pc' = [pc EXCEPT ![r] = "sm_pop"]
    /\ UNCHANGED <<cfgvars, respvars, devvars, tlocal, camera, operation, request_doc, root,
                   existing, outcome>>
    /\ Hist(r, {existing[r]})

\* set_moving: camera_config.pop('_move_timer', None)
SmPop(r) ==
    /\ pc[r] = "sm_pop"
    /\ move_timer' = [move_timer EXCEPT ![camera[r]] = None]
    /\ pc' = [pc EXCEPT ![r] = "sm_status"]
    /\ UNCHANGED <<cfgvars, respvars, status, timervars, camera, operation, request_doc, root,
                   existing, outcome>>
    /\ Hist(r, {move_timer[camera[r]]})

\* The status set_moving writes.
MovingStatus == "MOVING"

\* set_moving: camera_config['status'] = 'MOVING'
SmStatus(r) ==
    /\ pc[r] = "sm_status"
    /\ status' = [status EXCEPT ![camera[r]] = MovingStatus]
    /\ pc' = [pc EXCEPT ![r] = "sm_arm"]
    /\ UNCHANGED <<cfgvars, respvars, move_timer, timervars, camera, operation, request_doc, root,
                   existing, outcome>>
    /\ Hist(r, {})

\* set_moving: timer = threading.Timer(timeout, _set_idle);
\* camera_config['_move_timer'] = timer
SmArm(r) ==
    /\ pc[r] = "sm_arm"
    /\ tphase' = [tphase EXCEPT ![r] = "created"]
    /\ move_timer' = [move_timer EXCEPT ![camera[r]] = r]
    /\ pc' = [pc EXCEPT ![r] = "sm_start"]
    /\ UNCHANGED <<cfgvars, respvars, status, finished, remaining, tlocal, camera, operation,
                   request_doc, root, existing, outcome>>
    /\ Hist(r, {move_timer[camera[r]]})

\* set_moving: timer.start(), and the return to modify_onvif_request, which
\* returns etree.tostring(root).
SmStart(r) ==
    /\ pc[r] = "sm_start"
    /\ tphase' = [tphase EXCEPT ![r] = PhaseAfterStart(r)]
    /\ remaining' = [remaining EXCEPT ![r] =
                        IF finished[r] THEN 0 ELSE move_timeout[camera[r]]]
    /\ pc' = [pc EXCEPT ![r] = "forward"]
    /\ UNCHANGED <<cfgvars, respvars, devvars, finished, tlocal, camera, operation, request_doc,
                   root, existing, outcome>>
    /\ Hist(r, {})

\* set_idle: timer = camera_config.get('_move_timer')
SiGet(r) ==
    /\ pc[r] = "si_get"
    /\ existing' = [existing EXCEPT ![r] = move_timer[camera[r]]]
    /\ pc' = [pc EXCEPT ![r] =
                IF move_timer[camera[r]] # None THEN "si_cancel" ELSE "si_status"]
    /\ UNCHANGED <<cfgvars, respvars, devvars, timervars, camera, operation, request_doc, root,
                   outcome>>
    /\ Hist(r, {})

\* set_idle: timer.cancel()
SiCancel(r) ==
    /\ pc[r] = "si_cancel"
    /\ finished' = FinishedAfterCancel(existing[r])
    /\ tphase' = PhaseAfterCancel(existing[r])
    /\ remaining' = [j \in Requests |-> IF tphase'[j] = "done" THEN 0 ELSE remaining[j]]
    /\ pc' = [pc EXCEPT ![r] = "si_pop"]
    /\ UNCHANGED <<cfgvars, respvars, devvars, tlocal, camera, operation, request_doc, root,
                   existing, outcome>>
    /\ Hist(r, {existing[r]})

\* set_idle: camera_config.pop('_move_timer', None)
SiPop(r) ==
    /\ pc[r] = "si_pop"
    /\ move_timer' = [move_timer EXCEPT ![camera[r]] = None]
    /\ pc' = [pc EXCEPT ![r] = "si_status"]
    /\ UNCHANGED <<cfgvars, respvars, status, timervars, camera, operation, request_doc, root,
                   existing, outcome>>
    /\ Hist(r, {move_timer[camera[r]]})

\* set_idle: camera_config['status'] = 'IDLE', and the return to
\* modify_onvif_request, which returns etree.tostring(root).
SiStatus(r) ==
    /\ pc[r] = "si_status"
    /\ status' = [status EXCEPT ![camera[r]] = IdleStatus]
    /\ pc' = [pc EXCEPT ![r] = "forward"]
    /\ UNCHANGED <<cfgvars, respvars, move_timer, timervars, camera, operation, request_doc, root,
                   existing, outcome>>
    /\ HistOf(r, {}, {k \in Requests : camera[k] = camera[r]})

\* A handler that sets the camera IDLE again when the request could not be
\* answered.
ForwardRollsBack(r) ==
    /\ pc[r] = "forward"
    /\ pc' = [pc EXCEPT ![r] = "done"]
    /\ outcome' = [outcome EXCEPT ![r] = "TypeError"]
    /\ operation' = [operation EXCEPT ![r] = "none"]
    /\ request_doc' = [request_doc EXCEPT ![r] = NoPanTilt]
    /\ root' = [root EXCEPT ![r] = NoPanTilt]
    /\ existing' = [existing EXCEPT ![r] = None]
    /\ status' = [status EXCEPT ![camera[r]] = IdleStatus]
    /\ UNCHANGED <<cfgvars, respvars, move_timer, timervars, camera, replaced, stopped>>
    /\ pred' = [q \in Requests |-> IF Over(q)' THEN None ELSE pred[q]]

\* The rest of handle_onvif_request: proxy_tcp_request sends the serialised
\* tree to the camera and returns its response (or raises TypeError when
\* requests.post raises, see FaultBuilt); then
\* ONVIFResponseModifier.rewrite_host_urls(global_host, camera_config,
\* response_text) passes three arguments to a function of two parameters and
\* raises TypeError.  Nothing catches either: Flask answers 500.
Forward(r) ==
    /\ pc[r] = "forward"
    /\ pc' = [pc EXCEPT ![r] = "done"]
    /\ outcome' = [outcome EXCEPT ![r] = "TypeError"]
    /\ operation' = [operation EXCEPT ![r] = "none"]
    /\ request_doc' = [request_doc EXCEPT ![r] = NoPanTilt]
    /\ root' = [root EXCEPT ![r] = NoPanTilt]
    /\ existing' = [existing EXCEPT ![r] = None]
    /\ UNCHANGED <<cfgvars, respvars, devvars, timervars, camera, replaced, stopped>>
    /\ pred' = [q \in Requests |-> IF Over(q)' THEN None ELSE pred[q]]

(***************************************************************************)
(* modify_onvif_response, called on its own.  handle_onvif_request never  *)
(* reaches its call (see Forward): the calls below are those of a caller  *)
(* that hands the function the camera_config, the operation and the       *)
(* parsed response of the camera, one call after the other, while the     *)
(* timers run.                                                             *)
(***************************************************************************)
\* The operations whose branch returns etree.tostring(root) at once.
UntouchedOps == {"GetCapabilities", "GetProfiles", "GetConfiguration", "GetPresets",
                 "GoToPreset", "ContinuousMove", "AbsoluteMove", "Stop", "SetPreset"}

\* The result of a branch that neither reads nor writes camera_config.
Modified(op, doc) ==
    CASE op = "GetConfigurationOptions" /\ doc.kind = op -> OptionsResult(doc)
      [] op = "GetServiceCapabilities" /\ doc.kind = op -> CapabilitiesResult(doc)
      [] op = "RelativeMove" /\ doc.kind = op -> MoveResult(doc)
      [] OTHER -> Bytes(doc)

\* The arguments of a call of modify_onvif_response.
ResponseArgs(op, doc) ==
    [kind |-> "modify_onvif_response", operation |-> op, root |-> doc]

\* The call returns or raises: thread r is done.
Return(r, tree, value) ==
    /\ pc' = [pc EXCEPT ![r] = "done"]
    /\ response_root' = [response_root EXCEPT ![r] = tree]
    /\ returned' = [returned EXCEPT ![r] = value]
    /\ UNCHANGED <<operation, existing>>

\* modify_onvif_response(camera_config, op, doc) for camera d: the whole
\* call, or, for a GetStatus whose position is stable, the call up to
\* ONVIFHelpers.set_idle(camera_config).
ResponseCall(r, d, op, doc) ==
    /\ pc[r] = "new"
    /\ \A q \in Requests : q < r => pc[q] # "new"
    /\ camera' = [camera EXCEPT ![r] = d]
    /\ response_doc' = [response_doc EXCEPT ![r] = ResponseArgs(op, doc)]
    /\ IF op = "GetStatus"
       THEN LET step == StatusStep(doc, status_x[d], status_y[d])
                tree == StatusTree(doc, GetStatus(d), status_x[d], status_y[d])
            IN  CASE step = "rs_get" ->
                        /\ pc' = [pc EXCEPT ![r] = "rs_get"]
                        /\ operation' = [operation EXCEPT ![r] = op]
                        /\ response_root' = [response_root EXCEPT ![r] = tree]
                        /\ UNCHANGED <<status_x, status_y, returned, existing>>
                  [] step = "store" ->
                        /\ status_x' = [status_x EXCEPT ![d] = doc.pos.x]
                        /\ status_y' = [status_y EXCEPT ![d] = doc.pos.y]
                        /\ Return(r, tree, Bytes(tree))
                  [] step = "return" ->
                        /\ Return(r, tree, Bytes(tree))
                        /\ UNCHANGED <<status_x, status_y>>
                  [] step = "raise" ->
                        /\ Return(r, tree, Raise("TypeError"))
                        /\ UNCHANGED <<status_x, status_y>>
       ELSE /\ Return(r, doc, Modified(op, doc))
            /\ UNCHANGED <<status_x, status_y>>
    /\ UNCHANGED <<countvars, cfgvars, devvars, timervars, request_doc, root, outcome>>
    /\ Hist(r, {})

\* set_idle, called at the stable position: timer = camera_config.get('_move_timer')
RsGet(r) ==
    /\ pc[r] = "rs_get"
    /\ existing' = [existing EXCEPT ![r] = move_timer[camera[r]]]
    /\ pc' = [pc EXCEPT ![r] =
                IF move_timer[camera[r]] # None THEN "rs_cancel" ELSE "rs_status"]
    /\ UNCHANGED <<cfgvars, respvars, devvars, timervars, camera, operation, request_doc,
                   root, outcome>>
    /\ Hist(r, {})

\* set_idle, called at the stable position: timer.cancel()
RsCancel(r) ==
    /\ pc[r] = "rs_cancel"
    /\ finished' = FinishedAfterCancel(existing[r])
    /\ tphase' = PhaseAfterCancel(existing[r])
    /\ remaining' = [j \in Requests |-> IF tphase'[j] = "done" THEN 0 ELSE remaining[j]]
    /\ pc' = [pc EXCEPT ![r] = "rs_pop"]
    /\ UNCHANGED <<cfgvars, respvars, devvars, tlocal, camera, operation, request_doc,
                   root, existing, outcome>>
    /\ Hist(r, {existing[r]})

\* set_idle, called at the stable position: camera_config.pop('_move_timer', None)
RsPop(r) ==
    /\ pc[r] = "rs_pop"
    /\ move_timer' = [move_timer EXCEPT ![camera[r]] = None]
    /\ pc' = [pc EXCEPT ![r] = "rs_status"]
    /\ UNCHANGED <<cfgvars, respvars, status, timervars, camera, operation, request_doc,
                   root, existing, outcome>>
    /\ Hist(r, {move_timer[camera[r]]})

\* set_idle, called at the stable position: camera_config['status'] = 'IDLE';
\* then the rest of the branch: camera_config['status_x'] = current_x,
\* camera_config['status_y'] = current_y, return etree.tostring(root).
RsStatus(r) ==
    /\ pc[r] = "rs_status"
    /\ status' = [status EXCEPT ![camera[r]] = IdleStatus]
    /\ status_x' = [status_x EXCEPT ![camera[r]] = response_doc[r].root.pos.x]
    /\ status_y' = [status_y EXCEPT ![camera[r]] = response_doc[r].root.pos.y]
    /\ returned' = [returned EXCEPT ![r] = Bytes(response_root[r])]
    /\ pc' = [pc EXCEPT ![r] = "done"]
    /\ operation' = [operation EXCEPT ![r] = "none"]
    /\ existing' = [existing EXCEPT ![r] = None]
    /\ UNCHANGED <<countvars, cfgvars, move_timer, timervars, camera, request_doc, root, outcome,
                   response_doc, response_root>>
    /\ Hist(r, {})


(***************************************************************************)
(* Specifications.                                                         *)
(***************************************************************************)
\* A step of a thread that is running.
Run ==
    \/ \E r \in Requests :
          \/ SmGet(r) \/ SmCancel(r) \/ SmPop(r) \/ SmStatus(r) \/ SmArm(r) \/ SmStart(r)
          \/ SiGet(r) \/ SiCancel(r) \/ SiPop(r) \/ SiStatus(r)
          \/ Forward(r)
    \/ \E k \in Requests :
          \/ Expire(k)
          \/ CbGet(k) \/ CbCancel(k) \/ CbPop(k) \/ CbStatus(k)
    \/ Tick

\* Requests arrive at any time, also while others are being handled.
Next ==
    \/ \E r \in Requests :
          /\ pc[r] = "new"
          /\ \E d \in ConcDevices, in \in ConcInputs : HandleRequest(r, d, in[1], in[2])
    \/ Run

Spec == Init /\ [][Next]_vars

\* No request is being handled.
NoneInFlight == \A r \in Requests : pc[r] \in {"new", "done"}

\* Camera d was addressed before, or is the first camera not yet addressed
\* (the cameras start alike: they are numbered in the order of first use).
NextCamera(d) == \A e \in Devices : e < d => \E q \in Requests : camera[q] = e

\* Requests arrive one after the other; timers run on their own.
SeqNext ==
    \/ /\ NoneInFlight
       /\ \E r \in Requests :
             /\ pc[r] = "new"
             /\ \E d \in Devices :
                   /\ NextCamera(d)
                   /\ \E in \in SeqInputs : HandleRequest(r, d, in[1], in[2])
    \/ Run

SeqSpec == SeqInit /\ [][SeqNext]_vars

\* The calls of the status specification: GetStatus responses, and the
\* response of an operation whose branch leaves camera_config alone.
StatusInputs == ({"GetStatus"} \X StatusDocs) \cup {<<"Stop", StatusDoc(TRUE, NoElem, Here)>>}

\* A step of a thread that is running, in the status specification.
StatusRun ==
    \/ \E r \in Requests :
          \/ SmGet(r) \/ SmCancel(r) \/ SmPop(r) \/ SmStatus(r) \/ SmArm(r) \/ SmStart(r)
          \/ Forward(r)
          \/ RsGet(r) \/ RsCancel(r) \/ RsPop(r) \/ RsStatus(r)
    \/ \E k \in Requests :
          \/ Expire(k)
          \/ CbGet(k) \/ CbCancel(k) \/ CbPop(k) \/ CbStatus(k)
    \/ Tick

\* One after the other, a move is requested of a camera or the response of
\* a camera is given to modify_onvif_response; timers run on their own.
StatusNext ==
    \/ /\ NoneInFlight
       /\ \E r \in Requests :
             /\ pc[r] = "new"
             /\ \E d \in Devices :
                   /\ NextCamera(d)
                   /\ \/ HandleRequest(r, d, "ContinuousMove", ValidDoc)
                      \/ \E in \in StatusInputs : ResponseCall(r, d, in[1], in[2])
    \/ StatusRun

StatusSpec == Init /\ [][StatusNext]_vars


(***************************************************************************)
(* Requests and responses of several cameras, handled concurrently: each  *)
(* camera has its own Flask app and camera_config, and every request its  *)
(* own thread.                                                              *)
(***************************************************************************)
\* The requests of the specification: a move and a Stop.
DevicesInputs == {<<"RelativeMove", ValidDoc>>, <<"Stop", ValidDoc>>}

\* The requests go to the cameras in turn.
CameraOf(r) == ((r - 1) % NumDevices) + 1

\* The GetStatus response given to modify_onvif_response by thread r: the
\* camera is at another position in its later responses than in its first.
DevicesResponse(r) ==
    StatusDoc(TRUE, Elem(Text("MOVING")), IF r <= NumDevices THEN Here ELSE There)

\* A request arrives for a camera, or the GetStatus response of a camera is
\* given to modify_onvif_response, at any time; threads and timers run on
\* their own.
DevicesNext ==
    \/ \E r \in Requests :
          /\ pc[r] = "new"
          /\ \/ \E in \in DevicesInputs : HandleRequest(r, CameraOf(r), in[1], in[2])
             \/ ResponseCall(r, CameraOf(r), "GetStatus", DevicesResponse(r))
    \/ Run

DevicesSpec == Init /\ [][DevicesNext]_vars



(***************************************************************************)
(* The transforms that leave camera_config alone, and proxy_tcp_request,  *)
(* each called on its own.                                                  *)
(***************************************************************************)
\* The arguments of a call of proxy_tcp_request, with what requests.post did.
ForwardArgs(post) == [kind |-> "proxy_tcp_request", post |-> post]

\* proxy_tcp_request(camera_config, service, soap_body) for camera d.
ForwardCall(r, d, post) ==
    /\ pc[r] = "new"
    /\ \A q \in Requests : q < r => pc[q] # "new"
    /\ camera' = [camera EXCEPT ![r] = d]
    /\ response_doc' = [response_doc EXCEPT ![r] = ForwardArgs(post)]
    /\ returned' = [returned EXCEPT ![r] = Forwarded(post)]
    /\ pc' = [pc EXCEPT ![r] = "done"]
    /\ UNCHANGED <<countvars, cfgvars, devvars, timervars, operation, request_doc, root, existing,
                   outcome, status_x, status_y, response_root>>
    /\ Hist(r, {})

\* The responses given to modify_onvif_response in the transform
\* specification: those of the operations whose branch changes the tree, and
\* of an operation whose branch does not.
TransformInputs ==
    ({"GetConfigurationOptions"} \X OptionsDocs)
    \cup ({"GetServiceCapabilities"} \X CapabilitiesDocs)
    \cup ({"RelativeMove"} \X MoveDocs)
    \cup ({"GetProfiles"} \X {NoSpaces, MoveDoc(FALSE, TRUE, <<"Fault">>)})

\* etree.fromstring of what a call returned (of its encoding, for a str).
Parsed(value) == value.tree

\* Thread r gives modify_onvif_response what the call of thread r - 1
\* returned, for the same camera and operation.
Reapply(r) ==
    /\ r > 1
    /\ pc[r - 1] = "done"
    /\ response_doc[r - 1].kind = "modify_onvif_response"
    /\ returned[r - 1].kind \in {"bytes", "str"}
    /\ ResponseCall(r, camera[r - 1], response_doc[r - 1].operation,
                    Parsed(returned[r - 1]))

\* No call was made yet.
NoneCalled == \A r \in Requests : pc[r] = "new"

\* One function is called once, and a transform then again on its own result.
TransformNext ==
    \/ /\ NoneCalled
       /\ \E d \in Devices :
             /\ NextCamera(d)
             /\ \/ \E in \in TransformInputs : ResponseCall(1, d, in[1], in[2])
                \/ \E post \in PostResults : ForwardCall(1, d, post)
    \/ \E r \in Requests : Reapply(r)

TransformSpec == Init /\ [][TransformNext]_vars


(***************************************************************************)
(* POST /update, one request after the other.                              *)
(***************************************************************************)
\* The arguments of a call of update_camera_config.
UpdateArgs(data) == [kind |-> "update_camera_config", data |-> data]

\* update_camera_config() with the payload `data`: thread r keeps the payload
\* and the answer until the next /update is handled.
Update(r, data) ==
    /\ pc[r] = "new"
    /\ \A q \in Requests : q < r => pc[q] # "new"
    /\ pc' = [pc EXCEPT ![r] = "done"]
    /\ camera' = [camera EXCEPT ![r] = TargetCam(data)]
    /\ x_multiplier' = [d \in Devices |->
                          IF d = TargetCam(data) /\ Updated(data).x
                          THEN Float(data.x_multiplier).val ELSE x_multiplier[d]]
    /\ y_multiplier' = [d \in Devices |->
                          IF d = TargetCam(data) /\ Updated(data).y
                          THEN Float(data.y_multiplier).val ELSE y_multiplier[d]]
    /\ response_doc' = [q \in Requests |-> IF q = r THEN UpdateArgs(data) ELSE NoCall]
    /\ returned' = [q \in Requests |-> IF q = r THEN Updated(data).end ELSE NoCall]
    /\ UNCHANGED <<countvars, move_timeout, devvars, timervars, operation, request_doc, root,
                   existing, outcome, histvars, status_x, status_y, response_root>>

UpdateNext == \E r \in Requests, data \in Payloads : Update(r, data)

UpdateSpec == SeqInit /\ [][UpdateNext]_vars


(***************************************************************************)
(* rewrite_host_urls, called on its own with the two arguments it takes.  *)
(***************************************************************************)
RewriteArgs(camera_config, response_text) ==
    [kind |-> "rewrite_host_urls", camera_config |-> camera_config,
     response_text |-> response_text]

\* rewrite_host_urls(camera_config, response_text) for camera d.
RewriteCall(r, d, proxy_host, response_text) ==
    /\ pc[r] = "new"
    /\ \A q \in Requests : q < r => pc[q] # "new"
    /\ camera' = [camera EXCEPT ![r] = d]
    /\ response_doc' = [response_doc EXCEPT ![r] =
                          RewriteArgs(CameraConfig(d, proxy_host), response_text)]
    /\ returned' = [returned EXCEPT ![r] =
                      RewriteResult(CameraConfig(d, proxy_host), response_text)]
    /\ pc' = [pc EXCEPT ![r] = "done"]
    /\ UNCHANGED <<countvars, cfgvars, devvars, timervars, operation, request_doc, root, existing,
                   outcome, status_x, status_y, response_root>>
    /\ Hist(r, {})

\* The function is called once, for any camera.
RewriteNext ==
    /\ \A r \in Requests : pc[r] = "new"
    /\ \E d \in Devices, proxy_host \in ProxyHosts :
          \E response_text \in ResponseTexts(d) : RewriteCall(1, d, proxy_host, response_text)

RewriteSpec == Init /\ [][RewriteNext]_vars


(***************************************************************************)
(* One camera, with moves, Stops and GetStatus responses handled           *)
(* concurrently, and threads that are scheduled: a thread that can take a *)
(* step takes it in the end, and a started timer runs to its end.  No      *)
(* request has to arrive.                                                  *)
(***************************************************************************)
\* The requests: a move and a Stop.
LiveInputs == {<<"RelativeMove", ValidDoc>>, <<"Stop", NoPanTilt>>}

\* The GetStatus response given to modify_onvif_response: the camera is at
\* the same position every time.
LiveResponse == StatusDoc(TRUE, Elem(Text("MOVING")), Here)

\* A step of a thread or of a timer.
LiveRun ==
    \/ StatusRun
    \/ \E r \in Requests : SiGet(r) \/ SiCancel(r) \/ SiPop(r) \/ SiStatus(r)

\* Most requests that are being handled at a time.
MaxInFlight == 2

InFlight == {q \in Requests : pc[q] \notin {"new", "done"}}

LiveNext ==
    \/ \E r \in Requests :
          /\ pc[r] = "new"
          /\ Cardinality(InFlight) < MaxInFlight
          /\ \E d \in ConcDevices :
                \/ \E in \in LiveInputs : HandleRequest(r, d, in[1], in[2])
                \/ ResponseCall(r, d, "GetStatus", LiveResponse)
    \/ LiveRun

\* Every camera is configured with the longest move_timeout.
LiveInit ==
    /\ InitState
    /\ move_timeout = [d \in Devices |-> MaxTimeout]
    /\ x_multiplier = [d \in Devices |-> 5]
    /\ y_multiplier = [d \in Devices |-> -10]

LiveSpec == LiveInit /\ [][LiveNext]_vars /\ WF_vars(LiveRun)


(***************************************************************************)
(* The message counter of handle_onvif_request, lines 391 to 396, run by  *)
(* the threads of concurrent requests.  handle_onvif_request itself raises *)
(* before it reaches these lines (see Forward): the threads below are     *)
(* those of a handler that got as far.  Nothing makes the three statements *)
(* atomic: no lock is held, and a thread may be suspended between the      *)
(* reading and the writing of camera_config['_messages_proxied'] += 1.     *)
(***************************************************************************)
\* What is left alone by a step of the counter.
CountFrame ==
    UNCHANGED <<cfgvars, devvars, timervars, operation, request_doc, root, existing,
                outcome, histvars, status_x, status_y, response_root>>

\* The final response of a request for camera d is ready.
MpBegin(r, d) ==
    /\ pc[r] = "new"
    /\ \A q \in Requests : q < r => pc[q] # "new"
    /\ camera' = [camera EXCEPT ![r] = d]
    /\ pc' = [pc EXCEPT ![r] = "mp_check"]
    /\ response_doc' = [response_doc EXCEPT ![r] = [kind |-> "handle_onvif_request"]]
    /\ UNCHANGED <<countvars, returned>>
    /\ CountFrame

\* if '_messages_proxied' not in camera_config:
MpCheck(r) ==
    /\ pc[r] = "mp_check"
    /\ pc' = [pc EXCEPT ![r] =
                IF messages_proxied[camera[r]] = NoCount THEN "mp_init" ELSE "mp_load"]
    /\ UNCHANGED <<countvars, camera, response_doc, returned>>
    /\ CountFrame

\* camera_config['_messages_proxied'] = 0
MpInit(r) ==
    /\ pc[r] = "mp_init"
    /\ messages_proxied' = [messages_proxied EXCEPT ![camera[r]] = 0]
    /\ pc' = [pc EXCEPT ![r] = "mp_load"]
    /\ UNCHANGED <<loaded, camera, response_doc, returned>>
    /\ CountFrame

\* camera_config['_messages_proxied'] += 1: the value is read
MpLoad(r) ==
    /\ pc[r] = "mp_load"
    /\ loaded' = [loaded EXCEPT ![r] = messages_proxied[camera[r]]]
    /\ pc' = [pc EXCEPT ![r] = "mp_store"]
    /\ UNCHANGED <<messages_proxied, camera, response_doc, returned>>
    /\ CountFrame

\* camera_config['_messages_proxied'] += 1: the sum is written; then
\* return Response(final_response_body, ...)
MpStore(r) ==
    /\ pc[r] = "mp_store"
    /\ messages_proxied' = [messages_proxied EXCEPT ![camera[r]] = loaded[r] + 1]
    /\ loaded' = [loaded EXCEPT ![r] = 0]
    /\ returned' = [returned EXCEPT ![r] = [kind |-> "Response"]]
    /\ pc' = [pc EXCEPT ![r] = "done"]
    /\ UNCHANGED <<camera, response_doc>>
    /\ CountFrame

\* Requests are answered at any time, also while others are being answered.
CountNext ==
    \/ \E r \in Requests, d \in Devices : NextCamera(d) /\ MpBegin(r, d)
    \/ \E r \in Requests : MpCheck(r) \/ MpInit(r) \/ MpLoad(r) \/ MpStore(r)

CountSpec == Init /\ [][CountNext]_vars


(***************************************************************************)
(* Every entry point that reads or writes a camera_config: the ONVIF       *)
(* requests, the responses given to modify_onvif_response, POST /update   *)
(* and GET /status.json, one after the other, while the timers run.        *)
(***************************************************************************)
\* The requests: a RelativeMove that is rewritten, one without y, one whose
\* x is not a number; the other moves; a Stop; a query.
ProxyInputs ==
    ({"RelativeMove"} \X {ValidDoc, PanTilt(Attr(Chars("0.8")), NoAttr),
                          PanTilt(Attr(Chars("abc")), Attr(Chars("0.8")))})
    \cup ((MoveOps \cup {"Stop", "GetStatus"}) \X {ValidDoc})

\* The responses: of GetStatus, at one position, at another, and with an
\* empty move status; a fault in answer to a RelativeMove and to a
\* ContinuousMove.
ProxyResponses ==
    ({"GetStatus"} \X {StatusDoc(TRUE, Elem(Text("MOVING")), Here),
                       StatusDoc(TRUE, Elem(Text("IDLE")), There),
                       StatusDoc(TRUE, Elem(NoText), Here)})
    \cup ({"RelativeMove", "ContinuousMove"} \X {MoveDoc(FALSE, TRUE, <<"Fault">>)})

\* The payloads of /update: one that is accepted, one that is rejected after
\* its x_multiplier was taken, one that names no camera.
ProxyPayloads ==
    {Payload(None, d, Number(-10), Number(10)) : d \in Devices}
    \cup {Payload(1, None, Number(-10), Number(15)),
          Payload(Unknown, None, NoValue, Number(10))}

\* status_json(): for every camera, cam.get('status', 'IDLE') and the
\* multipliers; nothing is written.
StatusJson(r) ==
    /\ pc[r] = "new"
    /\ \A q \in Requests : q < r => pc[q] # "new"
    /\ pc' = [pc EXCEPT ![r] = "done"]
    /\ response_doc' = [response_doc EXCEPT ![r] = [kind |-> "status_json"]]
    /\ returned' = [returned EXCEPT ![r] =
                      [kind |-> "answer", status_code |-> 200,
                       cameras |-> [d \in Devices |->
                                      [status |-> GetStatus(d),
                                       x_multiplier |-> x_multiplier[d],
                                       y_multiplier |-> y_multiplier[d]]]]]
    /\ UNCHANGED <<countvars, cfgvars, devvars, timervars, camera, operation, request_doc, root,
                   existing, outcome, histvars, status_x, status_y, response_root>>

ProxyNext ==
    \/ /\ NoneInFlight
       /\ \E r \in Requests :
             /\ pc[r] = "new"
             /\ \/ \E d \in Devices :
                      /\ NextCamera(d)
                      /\ \/ \E in \in ProxyInputs : HandleRequest(r, d, in[1], in[2])
                         \/ \E in \in ProxyResponses : ResponseCall(r, d, in[1], in[2])
                \/ \E data \in ProxyPayloads : Update(r, data)
                \/ StatusJson(r)
    \/ StatusRun
    \/ \E r \in Requests : SiGet(r) \/ SiCancel(r) \/ SiPop(r) \/ SiStatus(r)

ProxySpec == Init /\ [][ProxyNext]_vars


(***************************************************************************)
(* Properties.                                                             *)
(***************************************************************************)
\* C1: under any interleaving of set_moving, set_idle and timer callbacks,
\* a camera has at most one live (started, not cancelled, not yet expired)
\* reversion timer.
C1_AtMostOneLiveTimer == \A d \in Devices : Cardinality(LiveTimers(d)) <= 1

\* C2: once a timer was replaced by a later set_moving or cancelled by
\* set_idle, its expiry callback, running while a newer timer is recorded in
\* _move_timer, changes neither the status nor the _move_timer entry, and
\* cancels no other timer.
C2_StaleCallbackInert ==
    [][\A k \in Requests :
          (/\ replaced[k]
           /\ tphase[k] \in CbPhases /\ tphase'[k] # tphase[k]
           /\ move_timer[camera[k]] \notin {None, k})
             => /\ status' = status
                /\ move_timer' = move_timer
                /\ \A j \in Requests \ {k} :
                      finished'[j] = finished[j] /\ tphase'[j] = tphase[j]]_vars

\* C3: in every state another thread can observe, a camera whose status is
\* MOVING has a timer recorded in _move_timer.
C3_MovingHasTimer ==
    \A d \in Devices : status[d] = "MOVING" => move_timer[d] # None

\* C4: when the transform of a Stop returns the status is IDLE, and once it
\* has returned the callback of a timer armed before the Stop changes
\* neither the status nor the _move_timer entry, and cancels no timer.
C4_NothingAfterStop ==
    [][/\ \A r \in Requests :
             (pc[r] = "si_status" /\ pc'[r] = "forward")
                => status'[camera[r]] = "IDLE"
       /\ \A k \in Requests :
             (stopped[k] /\ tphase[k] \in CbPhases /\ tphase'[k] # tphase[k])
                => /\ status' = status
                   /\ move_timer' = move_timer
                   /\ \A j \in Requests \ {k} :
                         finished'[j] = finished[j] /\ tphase'[j] = tphase[j]]_vars

\* C5: when set_moving returns, with the timer it armed still pending, the
\* status of the camera is MOVING.
C5_MovingOnReturn ==
    [][\A r \in Requests :
          (pc[r] = "sm_start" /\ pc'[r] = "forward" /\ tphase'[r] = "waiting")
             => status'[camera[r]] = "MOVING"]_vars

\* C6: when set_moving is called while the timer of an earlier set_moving
\* is pending, that earlier timer never fires.
C6_FirstTimerNeverFires ==
    \A r \in Requests : pred[r] # None => tphase[pred[r]] \notin CbPhases

\* The value of a float, in units of 10^-NumPlaces.
Signed(v) == IF v.neg THEN 0 - v.mag ELSE v.mag
Abs(n) == IF n < 0 THEN 0 - n ELSE n

\* clamp(text * multiplier, -1, 1), the multiplier in tenths.
Expected(text, tenths) ==
    LET p == (Signed(ParseFloat(text)) \div 10) * tenths
    IN  IF p > One THEN One ELSE IF p < 0 - One THEN 0 - One ELSE p

\* Request r is a RelativeMove with numeric x and y whose transform returned.
NumericRelativeMove(r) ==
    /\ pc[r] = "forward"
    /\ operation[r] = "RelativeMove"
    /\ request_doc[r].pantilt
    /\ request_doc[r].x.present /\ ParseFloat(request_doc[r].x.text).ok
    /\ request_doc[r].y.present /\ ParseFloat(request_doc[r].y.text).ok

\* `text` is a number in [-1, 1] that equals `want` to six significant digits.
SixDigitsOf(text, want) ==
    LET got == ParseFloat(text)
    IN  /\ got.ok
        /\ Abs(Signed(got)) <= One
        /\ 2 * Pow10(GPrecision - 1) * Abs(Signed(got) - want) <= Abs(want)

\* C7 (as stated): for a RelativeMove with numeric x and y and multipliers in
\* [-1, 1], the forwarded x equals clamp(x * x_multiplier, -1, 1), the
\* forwarded y equals clamp(y * y_multiplier, -1, 1), and set_moving ran.
C7_ExactlyClamped ==
    \A r \in Requests :
       NumericRelativeMove(r) =>
          /\ root[r].pantilt /\ root[r].x.present /\ root[r].y.present
          /\ ParseFloat(root[r].x.text).ok /\ ParseFloat(root[r].y.text).ok
          /\ Signed(ParseFloat(root[r].x.text))
                = Expected(request_doc[r].x.text, x_multiplier[camera[r]])
          /\ Signed(ParseFloat(root[r].y.text))
                = Expected(request_doc[r].y.text, y_multiplier[camera[r]])
          /\ tphase[r] # "unused"

\* C7 (amended): for a RelativeMove with numeric x and y and multipliers in
\* [-1, 1], the forwarded x and y are numbers in [-1, 1] that equal
\* clamp(x * x_multiplier, -1, 1) and clamp(y * y_multiplier, -1, 1) to six
\* significant digits, and set_moving ran (it created the request's timer).
C7_ClampedToSixDigits ==
    \A r \in Requests :
       NumericRelativeMove(r) =>
          /\ root[r].pantilt /\ root[r].x.present /\ root[r].y.present
          /\ SixDigitsOf(root[r].x.text,
                         Expected(request_doc[r].x.text, x_multiplier[camera[r]]))
          /\ SixDigitsOf(root[r].y.text,
                         Expected(request_doc[r].y.text, y_multiplier[camera[r]]))
          /\ tphase[r] # "unused"

\* A RelativeMove whose x saturates at 1 and whose y is rounded is forwarded.
C7_Witness ==
    \E r \in Requests :
       /\ NumericRelativeMove(r)
       /\ Abs((Signed(ParseFloat(request_doc[r].x.text)) \div 10)
                 * x_multiplier[camera[r]]) > One
       /\ Abs(Signed(ParseFloat(root[r].x.text))) = One
       /\ Signed(ParseFloat(root[r].y.text))
             # Expected(request_doc[r].y.text, y_multiplier[camera[r]])
       /\ status[camera[r]] = "MOVING"

\* The document has no PanTilt element, or its PanTilt lacks x or y.
Partial(doc) == ~doc.pantilt \/ ~doc.x.present \/ ~doc.y.present

\* C8: a RelativeMove without PanTilt, or whose PanTilt lacks x or y, is
\* forwarded with its document unmodified, and handling it leaves the
\* status, the _move_timer entry and every timer as they were.
C8_PartialPassesThrough ==
    [][\A r \in Requests :
          /\ (pc[r] = "new" /\ pc'[r] # "new"
                /\ operation'[r] = "RelativeMove" /\ Partial(request_doc'[r]))
                => /\ pc'[r] = "forward"
                   /\ root'[r] = request_doc'[r]
                   /\ UNCHANGED <<status, move_timer, timervars>>
          /\ (pc[r] = "forward" /\ pc'[r] # "forward"
                /\ operation[r] = "RelativeMove" /\ Partial(request_doc[r]))
                => /\ root[r] = request_doc[r]
                   /\ tphase[r] = "unused"
                   /\ UNCHANGED <<status, move_timer, timervars>>]_vars

\* A RelativeMove whose PanTilt has x but no y is being forwarded while the
\* camera is MOVING with a pending timer.
C8_Witness ==
    \E r \in Requests :
       /\ pc[r] = "forward"
       /\ operation[r] = "RelativeMove"
       /\ request_doc[r].pantilt /\ request_doc[r].x.present
       /\ ~request_doc[r].y.present
       /\ root[r] = request_doc[r]
       /\ status[camera[r]] = "MOVING"
       /\ move_timer[camera[r]] # None
       /\ tphase[move_timer[camera[r]]] = "waiting"

\* C9: no exception escapes the transform of a RelativeMove whose x or y is
\* not a number.
C9_NoExceptionEscapes == \A r \in Requests : outcome[r] # "ValueError"

\* C10: when the transform of GoToPreset, ContinuousMove or AbsoluteMove
\* returns, the document is unchanged, the status is MOVING and the timer the
\* call armed is pending and recorded; when the transform of Stop returns,
\* the document is unchanged and the status is IDLE.
C10_MoveEndsMoving ==
    [][\A r \in Requests :
          /\ (pc[r] = "sm_start" /\ pc'[r] = "forward" /\ operation[r] \in MoveOps)
                => /\ root'[r] = request_doc[r]
                   /\ status'[camera[r]] = "MOVING"
                   /\ tphase'[r] = "waiting"
                   /\ move_timer'[camera[r]] = r
          /\ (pc[r] = "si_status" /\ pc'[r] = "forward")
                => /\ root'[r] = request_doc[r]
                   /\ status'[camera[r]] = "IDLE"]_vars

\* Thread r called modify_onvif_response for a GetStatus whose response has
\* a MoveStatus/PanTilt element below its PTZStatus.
StatusCall(r) ==
    /\ response_doc[r].kind = "modify_onvif_response"
    /\ response_doc[r].operation = "GetStatus"
    /\ response_doc[r].root.ptz
    /\ response_doc[r].root.move.present

\* C11: the transform of a GetStatus response that has a move-status field
\* returns the document with, in that field, the status the proxy holds for
\* the camera when the transform reads it, or IDLE when the stability
\* detection fired, whatever text the camera sent.
C11_ProxyStatusReturned ==
    [][\A r \in Requests :
          (pc[r] # "done" /\ pc'[r] = "done" /\ StatusCall(r)')
             => /\ returned'[r].kind = "bytes"
                /\ returned'[r].tree.move.text
                      = IF pc[r] = "rs_status" THEN Text("IDLE")
                        ELSE Text(GetStatus(camera'[r]))]_vars

\* Thread r called modify_onvif_response for a GetStatus.
IsStatusCall(r) ==
    /\ response_doc[r].kind = "modify_onvif_response"
    /\ response_doc[r].operation = "GetStatus"

\* The response given to thread r reports a position: it has a
\* Position/PanTilt below its PTZStatus, with x and y.
ReportsPosition(r) ==
    /\ IsStatusCall(r)
    /\ response_doc[r].root.ptz
    /\ response_doc[r].root.pos.pantilt
    /\ response_doc[r].root.pos.x.present
    /\ response_doc[r].root.pos.y.present

\* The GetStatus responses of the camera of r that were handled before r's.
EarlierStatusCalls(r) ==
    {q \in Requests : q < r /\ camera[q] = camera[r] /\ IsStatusCall(q)}

\* The GetStatus response of the same camera handled just before r's, or None.
PreviousStatusCall(r) ==
    IF EarlierStatusCalls(r) = {} THEN None
    ELSE CHOOSE q \in EarlierStatusCalls(r) : \A p \in EarlierStatusCalls(r) : p <= q

\* C12: when the handling of a GetStatus response ends and the response
\* reports the same x and y as the GetStatus response of the same camera
\* handled just before, the camera is IDLE, no timer is recorded for it and
\* none of its timers is pending; when the two positions differ, the handling
\* has changed neither the status nor the timers.
C12_StableMeansIdle ==
    [][\A r \in Requests :
          (/\ pc[r] # "done" /\ pc'[r] = "done"
           /\ ReportsPosition(r)'
           /\ PreviousStatusCall(r)' # None
           /\ ReportsPosition(PreviousStatusCall(r)'))
             => IF response_doc'[r].root.pos
                      = response_doc[PreviousStatusCall(r)'].root.pos
                THEN /\ status'[camera'[r]] # "MOVING"
                     /\ move_timer'[camera'[r]] = None
                     /\ \A k \in Requests :
                           camera'[k] = camera'[r] => tphase'[k] # "waiting"
                ELSE /\ pc[r] = "new"
                     /\ UNCHANGED <<status, move_timer, timervars>>]_vars

\* C19: when the handling of a GetStatus response that has a position
\* (a Position/PanTilt below its PTZStatus) ends, status_x and status_y of
\* the camera are the x and y of that response; and no step other than the
\* end of the handling of a GetStatus response changes status_x or status_y.
C19_LastPositionRecorded ==
    [][/\ \A r \in Requests :
             (/\ pc[r] # "done" /\ pc'[r] = "done"
              /\ IsStatusCall(r)'
              /\ response_doc'[r].root.ptz
              /\ response_doc'[r].root.pos.pantilt)
                => /\ status_x'[camera'[r]] = response_doc'[r].root.pos.x
                   /\ status_y'[camera'[r]] = response_doc'[r].root.pos.y
       /\ (status_x' # status_x \/ status_y' # status_y)
             => \E r \in Requests :
                   pc[r] # "done" /\ pc'[r] = "done" /\ IsStatusCall(r)']_vars

\* C20: the handling of a GetStatus response whose position lacks x or y
\* returns the document, and it changes neither the status of the camera nor
\* any timer.
C20_PartialPositionReturned ==
    [][\A r \in Requests :
          (/\ pc[r] # "done" /\ pc'[r] = "done"
           /\ IsStatusCall(r)'
           /\ response_doc'[r].root.ptz
           /\ response_doc'[r].root.pos.pantilt
           /\ (~response_doc'[r].root.pos.x.present
                 \/ ~response_doc'[r].root.pos.y.present))
             => /\ returned'[r].kind = "bytes"
                /\ pc[r] = "new"
                /\ UNCHANGED <<status, move_timer, timervars>>]_vars

\* Thread r called modify_onvif_response for `op` and the call returned.
Transformed1(r, op) ==
    /\ pc[r] = "done"
    /\ response_doc[r].kind = "modify_onvif_response"
    /\ response_doc[r].operation = op
    /\ returned[r].kind \in {"bytes", "str"}

\* C13: the GetConfigurationOptions transform applied to what it returned
\* returns the same again, and whatever the number of applications the list
\* of spaces it returns has at most one relative pan-tilt translation space
\* whose URI is the TranslationSpaceFov one.
C13_Idempotent ==
    \A r \in Requests :
       Transformed1(r, "GetConfigurationOptions") =>
          /\ CountFov(returned[r].tree.list) <= 1
          /\ (r > 1 => returned[r] = returned[r - 1])

\* The response is a SOAP fault: its one Fault element is a child of the Body.
SoapFault(doc) ==
    /\ ~doc.header_fault /\ doc.body
    /\ Cardinality({i \in 1..Len(doc.children) : doc.children[i] \in {"Fault", "Wrapper"}}) = 1
    /\ \E i \in 1..Len(doc.children) : doc.children[i] = "Fault"

\* The response has no Fault element at all.
NoFault(doc) ==
    /\ ~doc.header_fault
    /\ \A i \in 1..Len(doc.children) : doc.children[i] \notin {"Fault", "Wrapper"}

\* C14: the transform of a RelativeMove response that is a SOAP fault returns
\* the document with no Fault among the children of the Body and with a
\* RelativeMoveResponse among them instead (one child removed, one added,
\* nothing else changed); the transform of a RelativeMove response without
\* Fault returns the document as it is.
C14_FaultBecomesSuccess ==
    \A r \in Requests :
       (/\ pc[r] = "done"
        /\ response_doc[r].kind = "modify_onvif_response"
        /\ response_doc[r].operation = "RelativeMove") =>
          /\ SoapFault(response_doc[r].root) =>
                /\ returned[r].kind = "bytes"
                /\ \A i \in 1..Len(returned[r].tree.children) :
                      returned[r].tree.children[i] # "Fault"
                /\ \E i \in 1..Len(returned[r].tree.children) :
                      returned[r].tree.children[i] = "RelativeMoveResponse"
                /\ Len(returned[r].tree.children) = Len(response_doc[r].root.children)
                /\ [returned[r].tree EXCEPT !.children = <<>>]
                      = [response_doc[r].root EXCEPT !.children = <<>>]
          /\ NoFault(response_doc[r].root) =>
                returned[r] = Bytes(response_doc[r].root)

\* The transform has returned a RelativeMove response whose Body held a Fault
\* and nothing else: the Body returned holds a RelativeMoveResponse.
C14_Witness ==
    \E r \in Requests :
       /\ Transformed1(r, "RelativeMove")
       /\ response_doc[r].root.children = <<"Fault">>
       /\ ~response_doc[r].root.header_fault
       /\ returned[r].tree.children = <<"RelativeMoveResponse">>

\* C17: the transform of a GetServiceCapabilities response that has a
\* tptz:Capabilities element returns the document with the MoveStatus and
\* the StatusPosition attributes of that element both "true", whatever the
\* camera sent for them.
C17_FlagsAdvertised ==
    \A r \in Requests :
       (/\ pc[r] = "done"
        /\ response_doc[r].kind = "modify_onvif_response"
        /\ response_doc[r].operation = "GetServiceCapabilities"
        /\ response_doc[r].root.caps) =>
          /\ returned[r].kind = "bytes"
          /\ returned[r].tree.caps
          /\ returned[r].tree.MoveStatus = Attr(Text("true"))
          /\ returned[r].tree.StatusPosition = Attr(Text("true"))

\* The transform has returned a GetServiceCapabilities response in which the
\* camera sent MoveStatus="false" and no StatusPosition.
C17_Witness ==
    \E r \in Requests :
       /\ Transformed1(r, "GetServiceCapabilities")
       /\ response_doc[r].root = CapabilitiesDoc(TRUE, Attr(Text("false")), NoAttr)
       /\ returned[r].tree.StatusPosition = Attr(Text("true"))

(***************************************************************************)
(* The synthetic fault proxy_tcp_request is to return for a failure: the  *)
(* text of its Reason.                                                      *)
(***************************************************************************)
FaultFor(exc) ==
    CASE exc = "Timeout" -> "Request timeout"
      [] exc = "ConnectionError" -> "Connection error to camera"
      [] OTHER -> "str(e)"

\* C15: when requests.post raises (a timeout, a connection error or any
\* other exception), proxy_tcp_request returns the pair of the synthetic
\* fault of that failure and 500; no exception leaves the call.
C15_FaultReturned ==
    \A r \in Requests :
       (/\ pc[r] = "done"
        /\ response_doc[r].kind = "proxy_tcp_request"
        /\ response_doc[r].post.kind = "raise") =>
          returned[r] = Pair(FaultFor(response_doc[r].post.exc), 500)

\* C16: the handling of a request whose request transform has returned goes
\* on through the forwarding, the rewriting of the endpoint URLs and the
\* response transform to the return of the final document: it does not end
\* with an exception in between.
C16_ReachesReturn ==
    [][\A r \in Requests :
          (pc[r] = "forward" /\ pc'[r] = "done")
             => outcome'[r] \notin {"TypeError", "ValueError"}]_vars

\* A multiplier (in tenths) is a number of [-1, 1].
InUnitRange(m) == m # NaN /\ -10 <= m /\ m <= 10

\* C18: after any sequence of /update requests the multipliers of every
\* camera are in [-1, 1], as they were at the start; and an /update that
\* carries, for x_multiplier or y_multiplier, a number outside [-1, 1] or
\* something that is not a number is answered 400.
C18_MultipliersInRange ==
    /\ \A d \in Devices : InUnitRange(x_multiplier[d]) /\ InUnitRange(y_multiplier[d])
    /\ \A r \in Requests :
          (/\ response_doc[r].kind = "update_camera_config"
           /\ \/ RefusedStrict(response_doc[r].data.x_multiplier)
                    /\ response_doc[r].data.x_multiplier.kind # "absent"
              \/ RefusedStrict(response_doc[r].data.y_multiplier)
                    /\ response_doc[r].data.y_multiplier.kind # "absent")
             => returned[r] = Answer(400, "error")

\* Thread r called modify_onvif_response for GetConfigurationOptions with a
\* response that has a tt:Spaces element, and the call is over.
OptionsCall(r) ==
    /\ pc[r] = "done"
    /\ response_doc[r].kind = "modify_onvif_response"
    /\ response_doc[r].operation = "GetConfigurationOptions"
    /\ response_doc[r].root.kind = "GetConfigurationOptions"
    /\ response_doc[r].root.spaces

\* The list `new` is the list `old` with one FovSpace put in after entry k.
FovAfter(old, new, k) ==
    /\ Len(new) = Len(old) + 1
    /\ new[k + 1] = FovSpace
    /\ \A i \in 1..Len(old) : new[IF i <= k THEN i ELSE i + 1] = old[i]

\* C21: when the list of spaces of a GetConfigurationOptions response has a
\* relative pan-tilt translation space and none whose URI is the
\* TranslationSpaceFov one, the transform returns the list with one entry
\* more, of that URI and with X and Y ranges -1..1, right after the last
\* relative pan-tilt translation space of the response, every entry of the
\* response being kept as it was and in its order.
C21_InsertedAfterLastRelative ==
    \A r \in Requests :
       LET old == response_doc[r].root.list
       IN  (/\ OptionsCall(r)
            /\ \E i \in 1..Len(old) : IsRelative(old[i])
            /\ CountFov(old) = 0)
              => /\ returned[r].kind \in {"bytes", "str"}
                 /\ \E k \in 1..Len(old) :
                       /\ IsRelative(old[k])
                       /\ \A j \in (k + 1)..Len(old) : ~IsRelative(old[j])
                       /\ FovAfter(old, returned[r].tree.list, k)

\* C22: when the list of spaces of a GetConfigurationOptions response has no
\* relative pan-tilt translation space, the transform returns the list with
\* the TranslationSpaceFov entry of ranges -1..1 added at its end.
C22_AppendedWhenNoRelative ==
    \A r \in Requests :
       LET old == response_doc[r].root.list
       IN  (/\ OptionsCall(r)
            /\ \A i \in 1..Len(old) : ~IsRelative(old[i]))
              => /\ returned[r].kind \in {"bytes", "str"}
                 /\ returned[r].tree.list = Append(old, FovSpace)

\* The operations the request transform has no state effect for: the
\* queries it lists, and every operation it does not list.
UntrackedOps == Operations \ (MoveOps \cup {"RelativeMove", "Stop"})

\* C23: the request transform of an operation other than RelativeMove,
\* GoToPreset, ContinuousMove, AbsoluteMove and Stop returns the document it
\* was given, and leaves the status, the _move_timer entry, the timers, the
\* last known position and the multipliers of every camera as they were.
C23_UntrackedPassesThrough ==
    [][\A r \in Requests :
          (pc[r] = "new" /\ pc'[r] # "new" /\ operation'[r] \in UntrackedOps)
             => /\ pc'[r] = "forward"
                /\ root'[r] = request_doc'[r]
                /\ UNCHANGED <<status, move_timer, timervars, status_x, status_y,
                               x_multiplier, y_multiplier>>]_vars

\* The transform of an operation it does not list has returned a document
\* with a PanTilt of two numeric axes as it was, for a camera that is MOVING
\* with a pending timer.
C23_Witness ==
    \E r \in Requests :
       /\ pc[r] = "forward"
       /\ operation[r] = "SetPreset"
       /\ HasBothAxes(request_doc[r])
       /\ root[r] = request_doc[r]
       /\ status[camera[r]] = "MOVING"
       /\ move_timer[camera[r]] # None
       /\ tphase[move_timer[camera[r]]] = "waiting"

\* The step leaves camera d alone: its status, its _move_timer entry, its
\* last known position, its multipliers and the timers armed for it.
Untouched(d) ==
    /\ status'[d] = status[d]
    /\ move_timer'[d] = move_timer[d]
    /\ status_x'[d] = status_x[d] /\ status_y'[d] = status_y[d]
    /\ x_multiplier'[d] = x_multiplier[d] /\ y_multiplier'[d] = y_multiplier[d]
    /\ \A j \in Requests :
          camera[j] = d => tphase'[j] = tphase[j] /\ finished'[j] = finished[j]

\* C24: a step of a request transform, of a response transform, of
\* set_moving or of set_idle made for one camera, and the expiry of a timer
\* of one camera with the steps of its callback, leave the status, the
\* timers, the last known position and the multipliers of every other camera
\* unchanged, whatever the other cameras are doing.
C24_OtherDevicesUntouched ==
    [][/\ \A r \in Requests :
             pc'[r] # pc[r] => \A d \in Devices \ {camera'[r]} : Untouched(d)
       /\ \A k \in Requests :
             (pc' = pc /\ tphase'[k] # tphase[k])
                => \A d \in Devices \ {camera[k]} : Untouched(d)]_vars

\* Two cameras are MOVING, each with its own pending timer, and the callback
\* of an earlier timer of one of them is about to write the status.
C24_Witness ==
    \E d \in Devices, e \in Devices, k \in Requests :
       /\ d # e
       /\ status[d] = "MOVING" /\ status[e] = "MOVING"
       /\ move_timer[d] # None /\ move_timer[e] # None
       /\ tphase[move_timer[e]] = "waiting"
       /\ camera[k] = d /\ tphase[k] = "cb_status"

\* Thread r handles a request whose transform calls set_moving: a
\* GoToPreset, ContinuousMove or AbsoluteMove, or a RelativeMove with two
\* numeric axes.
MovingTransform(r) ==
    \/ operation[r] \in MoveOps
    \/ /\ operation[r] = "RelativeMove"
       /\ HasBothAxes(request_doc[r]) /\ ~RaisesValueError(request_doc[r])

\* C25: the status of a camera becomes MOVING, a timer is recorded for a
\* camera and a timer is created only by a step of set_moving called from
\* the request transform of a RelativeMove with valid axes, a GoToPreset, a
\* ContinuousMove or an AbsoluteMove for that camera; no step of a response
\* transform, of a timer callback, of /update or of a status read does any of
\* these.
C25_MovingOnlyByMoveRequest ==
    [][/\ \A d \in Devices :
             /\ (status[d] # "MOVING" /\ status'[d] = "MOVING")
                   => \E r \in Requests :
                         /\ camera[r] = d /\ pc[r] = "sm_status" /\ pc'[r] = "sm_arm"
                         /\ MovingTransform(r)
             /\ (move_timer'[d] # None /\ move_timer'[d] # move_timer[d])
                   => \E r \in Requests :
                         /\ camera[r] = d /\ pc[r] = "sm_arm" /\ pc'[r] = "sm_start"
                         /\ MovingTransform(r)
                         /\ move_timer'[d] = r
       /\ \A k \in Requests :
             (tphase[k] \in {"unused", "done"} /\ tphase'[k] \notin {"unused", "done"})
                => /\ pc[k] = "sm_arm" /\ pc'[k] = "sm_start"
                   /\ MovingTransform(k)]_vars

\* After an /update was answered and a GetStatus response was transformed,
\* the transform of a GoToPreset has set an idle camera MOVING and is about
\* to arm its timer.
C25_Witness ==
    \E r \in Requests, q \in Requests, u \in Requests :
       /\ pc[r] = "sm_arm"
       /\ operation[r] = "GoToPreset"
       /\ status[camera[r]] = "MOVING"
       /\ move_timer[camera[r]] = None
       /\ response_doc[q].kind = "modify_onvif_response"
       /\ response_doc[q].operation = "GetStatus"
       /\ camera[q] = camera[r]
       /\ response_doc[u].kind = "update_camera_config"
       /\ returned[u] = Answer(200, "ok")

\* The positions at which `old` occurs in `text`.
Occurrences(text, old) ==
    {i \in 1..Len(text) :
        i + Len(old) - 1 <= Len(text) /\ SubSeq(text, i, i + Len(old) - 1) = old}

RECURSIVE Substituted(_, _, _, _, _)
\* `text` from position i on, with `new` in the place of the Len(old) pieces
\* at each position of `occ` and every other piece as it is.
Substituted(text, occ, old, new, i) ==
    IF i > Len(text) THEN <<>>
    ELSE (IF i \in occ THEN new
          ELSE IF \E j \in occ : j < i /\ i < j + Len(old) THEN <<>>
          ELSE <<text[i]>>)
         \o Substituted(text, occ, old, new, i + 1)

\* The base URL clients reach the proxy of camera d at.
ExternalUrl(d) == Url(ProxyServerIp, ProxyPort(d))

\* C26: what rewrite_host_urls returns is the response text with the URL
\* http://<proxy_server_ip>:<proxy_port>/onvif/service of the camera's proxy
\* at every place where the text has the camera's base service URL
\* http://<camera_host>:<camera_port>/onvif/service, and with all other text
\* as it was; a text without that URL is returned as it is.
C26_UrlsRewritten ==
    \A r \in Requests :
       (pc[r] = "done" /\ response_doc[r].kind = "rewrite_host_urls")
          => LET text == response_doc[r].response_text
                 old == Url(CameraHost(camera[r]), CameraPort(camera[r]))
             IN  /\ returned[r].kind = "text"
                 /\ returned[r].text =
                       Substituted(text, Occurrences(text, old), old,
                                   ExternalUrl(camera[r]), 1)
                 /\ (Occurrences(text, old) = {} => returned[r].text = text)

\* C27: whatever way the moves, the Stops, the GetStatus responses and the
\* timer callbacks of a camera interleave, once no further request arrives
\* and the threads and timers have run, the camera is not MOVING, and it is
\* not MOVING from then on.
C27_EventuallyIdle == <>[](\A d \in Devices : status[d] # "MOVING")

\* Every request was a move for the same camera, every thread has returned
\* and every timer has ended: the camera is IDLE with no timer recorded.
C27_Witness ==
    \E d \in Devices :
       /\ \A r \in Requests : pc[r] = "done" /\ camera[r] = d /\ tphase[r] = "done"
       /\ status[d] = "IDLE"
       /\ move_timer[d] = None

\* The operations whose request transform changes the motion state.
TrackedOps == MoveOps \cup {"RelativeMove", "Stop"}

\* C28: set_moving or set_idle has run to its end when the request of a move
\* or a Stop is forwarded; the forwarding and its failure, and the response
\* transform of a move or a Stop, also of a fault and of the RelativeMove
\* fault it replaces, leave the status, the _move_timer entry and the timers
\* as they are; and a camera that is MOVING ceases to be so only by the
\* callback of a timer, by the set_idle of a Stop or by the set_idle of a
\* GetStatus response at a stable position.
C28_NeverRolledBack ==
    [][/\ \A r \in Requests :
             /\ (pc[r] # "forward" /\ pc'[r] = "forward" /\ operation'[r] = "Stop")
                   => pc[r] = "si_status" /\ status'[camera[r]] = "IDLE"
             /\ (pc[r] # "forward" /\ pc'[r] = "forward" /\ MovingTransform(r)')
                   => pc[r] = "sm_start" /\ tphase'[r] \in {"waiting", "done"}
             /\ (pc[r] = "forward" /\ pc'[r] # "forward")
                   => UNCHANGED <<status, move_timer, timervars>>
             /\ (/\ pc[r] = "new" /\ pc'[r] # "new"
                 /\ response_doc'[r].kind = "modify_onvif_response"
                 /\ response_doc'[r].operation \in TrackedOps)
                   => /\ pc'[r] = "done"
                      /\ UNCHANGED <<status, move_timer, timervars>>
       /\ \A d \in Devices :
             (status[d] = "MOVING" /\ status'[d] # "MOVING")
                => \E k \in Requests :
                      /\ camera[k] = d
                      /\ \/ tphase[k] = "cb_status" /\ tphase'[k] = "done"
                         \/ pc[k] = "si_status" /\ operation[k] = "Stop" /\ pc'[k] = "forward"
                         \/ pc[k] = "rs_status" /\ operation[k] = "GetStatus"
                               /\ pc'[k] = "done"]_vars

\* A RelativeMove was requested and its forwarding ended with an exception;
\* then the fault the camera answered with was replaced by a
\* RelativeMoveResponse: the camera is MOVING and the timer of the move is
\* pending.
C28_Witness ==
    \E r \in Requests, q \in Requests :
       /\ pc[r] = "done" /\ outcome[r] = "TypeError"
       /\ tphase[r] = "waiting"
       /\ move_timer[camera[r]] = r
       /\ status[camera[r]] = "MOVING"
       /\ q > r /\ camera[q] = camera[r] /\ pc[q] = "done"
       /\ response_doc[q].kind = "modify_onvif_response"
       /\ response_doc[q].operation = "RelativeMove"
       /\ SoapFault(response_doc[q].root)
       /\ returned[q].kind = "bytes"
       /\ NoFault(returned[q].tree)

\* C29: an /update that is answered 400 leaves x_multiplier and
\* y_multiplier of every camera as they were, also when one of its two values
\* is valid.
C29_RejectedChangesNothing ==
    [][\A r \in Requests :
          (pc[r] = "new" /\ pc'[r] = "done" /\ returned'[r] = Answer(400, "error"))
             => UNCHANGED <<x_multiplier, y_multiplier>>]_vars

\* camera_config.get('_messages_proxied', 0)
MessagesProxied(d) == IF messages_proxied[d] = NoCount THEN 0 ELSE messages_proxied[d]

====
